---- MODULE Spec2Model ----
(***************************************************************************)
(* A model of the SiteSearch view (src/app/src/pages/SiteSearch.tsx): the  *)
(* React component's state, its handlers, the asynchronous requests they   *)
(* leave in flight, and the backend (tables, photo metadata, object        *)
(* storage, realtime channels) the handlers talk to.                       *)
(*                                                                         *)
(* Every await of the source splits a handler into steps.  A request that  *)
(* is in flight is a record in one of the sets searches, photoLoads,       *)
(* refreshes, saves, lookups, uploads; the backend serves it in one step   *)
(* (reading or writing the tables at that moment) and the handler's        *)
(* continuation runs in a later step (writing the component's state).      *)
(* Strings are TLA+ strings, except site identifiers and search queries,   *)
(* which are sequences of characters so that trim() can be computed.       *)
(* SQL NULL / JavaScript null is the value NULL.                           *)
(***************************************************************************)
EXTENDS Naturals, Integers, Sequences, FiniteSets, TLC

(***************************************************************************)
(* Bounds of the model.                                                    *)
(***************************************************************************)
MaxSearches == 2     \* calls of handleSearch with a non-empty query
MaxEmptySearches == 1 \* calls of handleSearch with an empty query
MaxExternal == 1     \* row changes made by other clients
MaxFailures == 1     \* backend requests that answer with an error
EditSearches == 1    \* calls of handleSearch in the runs that edit rows
MaxEdits == 2        \* edits of a row's fields by the user
MaxFormEdits == 3    \* edits of the form of the new row
FormRowEdits == 1    \* edits of a row in the runs that fill the form
MaxSaves == 1        \* calls of handleSaveRow
MaxUploads == 2      \* calls of handlePhotoUpload
RaceEdits == 1       \* edits of a row in the runs with another client
MaxAdds == 1         \* calls of handleAddNewRow
InsertFormEdits == 4 \* edits of the form in the runs of the add-row insert
InsertAdds == 2      \* calls of handleAddNewRow in the runs of the add-row insert
AddUploads == 1      \* photo uploads in the runs that add a row
MaxDetail == 4       \* events of the user at the selects of the asset-detail drawer
MaxSubmitEvents == 6 \* events of the user in the runs that submit the drawer
CatalogFailures == 2 \* failing requests in the runs of the product-number lookup
MaxStatusRequests == 3 \* queries of v_tag_status
CascadeEdits == 3    \* changes of a row's selects in the runs of the cascade
RepeatedSaves == 2   \* calls of handleSaveRow in the runs that save a row again

(***************************************************************************)
(* Program constants.                                                      *)
(***************************************************************************)
TABS == <<"Enclosure", "RAN-Active", "RAN-Passive", "MW-Active", "MW-Passive">>

TabSet == {TABS[i] : i \in 1..Len(TABS)}

TAB_TABLE_MAP ==
    [tab \in TabSet |->
        CASE tab = "Enclosure"   -> "enclosure_assets"
          [] tab = "RAN-Active"  -> "ran_active_assets"
          [] tab = "RAN-Passive" -> "ran_passive_assets"
          [] tab = "MW-Active"   -> "mw_active_assets"
          [] tab = "MW-Passive"  -> "mw_passive_assets"]

Tables == {TAB_TABLE_MAP[tab] : tab \in TabSet}

NULL == "<null>"

\* The editable columns of an asset row and the draft field of each.
Fields == {"equipment_type", "product_name", "product_number", "serial",
           "tag", "status", "remarks"}

DraftOf ==
    [f \in Fields |->
        CASE f = "equipment_type" -> "_equipment_type"
          [] f = "product_name"   -> "_product_name"
          [] f = "product_number" -> "_product_number"
          [] f = "serial"         -> "_serial"
          [] f = "tag"            -> "_tag"
          [] f = "status"         -> "_status"
          [] f = "remarks"        -> "_remarks"]

DraftNames == {DraftOf[f] : f \in Fields}

\* JavaScript's  v || ''  on a column value: null and '' both give ''.
OrEmpty(v) == IF v = NULL \/ v = "" THEN "" ELSE v

\* JavaScript's String.prototype.trim on a sequence of characters.
\* A query taken as it was typed.
NoTrim(q) == q

RECURSIVE TrimLeft(_)
TrimLeft(q) == IF q # <<>> /\ Head(q) = " " THEN TrimLeft(Tail(q)) ELSE q

RECURSIVE TrimRight(_)
TrimRight(q) ==
    IF q # <<>> /\ q[Len(q)] = " " THEN TrimRight(SubSeq(q, 1, Len(q) - 1)) ELSE q

Trim(q) == TrimRight(TrimLeft(q))

(***************************************************************************)
(* The backend at the start: rows of two sites in two of the five tables.  *)
(* date_text is a free-text column; its values stand here for their rank   *)
(* in the backend's ordering of that column.  Ids are unique per table     *)
(* only: "u1" names a row in two tables.                                   *)
(***************************************************************************)
SiteA == <<"A">>
SiteB == <<"B">>

AssetRow(id, site, date, serial, remarks) ==
    [id |-> id, site_id |-> site, date_text |-> date,
     equipment_type |-> "ET1", product_name |-> "PN1", product_number |-> "N1",
     serial |-> serial, tag |-> "T1", status |-> "OK", remarks |-> remarks]

InitialTables ==
    [tb \in Tables |->
        CASE tb = "enclosure_assets" ->
                {AssetRow("u1", SiteA, 2, "S1", NULL),
                 AssetRow("u2", SiteA, 1, "S2", "r2"),
                 AssetRow("u3", SiteB, 1, "S3", "r3")}
          [] tb = "ran_active_assets" ->
                {AssetRow("u1", SiteA, 1, "S4", "r4")}
          [] OTHER -> {}]

\* The storage path of handlePhotoUpload (618) and handleNewAssetPhotoUpload
\* (808): site/table/assetId/photoType/filename.
StoragePath(site, table, assetId, photoType, fileName) ==
    <<site, table, assetId, photoType, fileName>>

\* The asset_photos table at the start: one serial photo of row u1 of the
\* enclosure table.
InitialPhotos ==
    {[id |-> 1, asset_id |-> "u1", asset_table |-> "enclosure_assets",
      photo_type |-> "serial",
      storage_path |-> StoragePath(SiteA, "enclosure_assets", "u1", "serial", "a.jpg")]}

\* The bucket at the start holds the file of that photo.
InitialStorage ==
    [path \in {ph.storage_path : ph \in InitialPhotos} |-> "X0"]

\* What the user can type into the search box.
Queries == {<<>>, <<" ">>, <<"A">>, <<" ", "B", " ">>}

(***************************************************************************)
(* The state.                                                              *)
(***************************************************************************)
VARIABLES
    \* --- the component's state (useState / useRef), SiteSearch.tsx 64-104
    siteId, activeTab, tabData, tabCounts, photos, loading, error,
    hasSearched, channelRef, photoChannelRef,
    equipmentTypes, productNames, loadingDropdowns,
    newRow, newRowProductNames, uploadingPhoto,
    newRowSaving, newAssetId, newAssetPhotos, uploadingNewPhoto,
    effectDeps,     \* the dependencies the effect at 243-247 last ran with
    mounted,        \* the component instance is mounted
    \* --- the backend
    tables,         \* the five asset tables: table name -> set of rows
    assetPhotos,    \* the asset_photos table: set of metadata records
    storage,        \* the asset-photos bucket: storage path -> file content
    channels,       \* the realtime channels that are open
    \* --- requests and messages in flight
    searches,       \* calls of handleSearch that have not returned
    photoLoads,     \* calls of loadPhotosForAssets that have not returned
    refreshes,      \* calls of refreshTabData that have not returned
    notifs,         \* change notifications not yet delivered to a listener
    lookups,        \* queries of the lookup views that are not answered yet
    saves,          \* calls of handleSaveRow that have not returned
    adds,           \* calls of handleAddNewRow that have not returned
    \* --- the asset-detail drawer (AssetDetail, 1580-2027) and its backend
    assetDetail,    \* the state of the drawer (useState, 1581-1612)
    detailCalls,    \* requests of the drawer that are not answered yet
    assetsTable,    \* the assets table
    \* --- the tag statuses of the search view (78, 216-254)
    tagStatuses,    \* the state tagStatuses: the statuses that are loaded
    statusRef,      \* the identity of the array tagStatuses holds
    statusDeps,     \* the dependencies the effect at 250-254 last ran with
    statusCalls,    \* queries of v_tag_status that are not answered yet
    statusRequests, \* queries of v_tag_status issued so far
    \* --- the router, the session and the login page (App, Login)
    router,         \* the path shown, the session, the state of the login page
    uploads,        \* calls of handlePhotoUpload that have not returned
    \* --- bookkeeping of the model
    budget,         \* how many more of each bounded event may happen
    last            \* the step taken last

viewVars == <<siteId, activeTab, tabData, tabCounts, photos, loading, error,
              hasSearched>>
refVars == <<channelRef, photoChannelRef>>
backendVars == <<tables, assetPhotos, channels>>
flightVars == <<searches, photoLoads, refreshes, notifs>>
editVars == <<equipmentTypes, productNames, loadingDropdowns, effectDeps,
              lookups, saves>>
addVars == <<newRowSaving, newAssetId, newAssetPhotos, uploadingNewPhoto, adds>>
formVars == <<newRow, newRowProductNames, addVars>>
uploadVars == <<storage, uploads, uploadingPhoto>>
statusVars == <<tagStatuses, statusRef, statusDeps, statusCalls, statusRequests>>
detailVars == <<assetDetail, detailCalls, assetsTable, router, statusVars>>
vars == <<viewVars, refVars, mounted, backendVars, flightVars, editVars,
          formVars, uploadVars, detailVars, budget, last>>

\* A JavaScript object used as a map ({} at the start): a function whose
\* domain is the set of keys present.
EmptyMap == [k \in {} |-> {}]

Get(map, key, default) == IF key \in DOMAIN map THEN map[key] ELSE default

Put(map, key, value) ==
    [k \in DOMAIN map \cup {key} |-> IF k = key THEN value ELSE map[k]]

\* The empty form of the new row (85-93, 692-700).
EmptyNewRow ==
    [equipment_type |-> "", product_name |-> "", product_number |-> "",
     serial |-> "", tag |-> "", status |-> "", remarks |-> ""]

\* The assets table at the start: the asset the drawer is opened for.
InitialAssets ==
    {[id |-> "d1", site_id |-> SiteA, category |-> "Enclosure",
      serial_number |-> "S1", tag_number |-> "T1", status |-> "Pending",
      remarks |-> NULL]}

\* No asset is selected in the site view (1348): no drawer is rendered
\* (1466-1472).
ClosedDrawer == [open |-> FALSE, inst |-> 0]

\* The application as it is opened: the login page at the root (App, 14),
\* its state (Login, 1483-1488), no session, no request of the login page.
InitialRouter ==
    [path |-> "/", session |-> FALSE, email |-> "", password |-> "",
     err |-> NULL, loading |-> FALSE, calls |-> {}]

InitWith(allowance) ==
    /\ siteId = <<>>
    /\ activeTab = "Enclosure"
    /\ tabData = EmptyMap
    /\ tabCounts = EmptyMap
    /\ photos = EmptyMap
    /\ loading = FALSE
    /\ error = NULL
    /\ hasSearched = FALSE
    /\ channelRef = 0
    /\ photoChannelRef = 0
    /\ mounted = TRUE
    /\ tables = InitialTables
    /\ assetPhotos = InitialPhotos
    /\ channels = {}
    /\ searches = {}
    /\ photoLoads = {}
    /\ refreshes = {}
    /\ notifs = {}
    /\ equipmentTypes = EmptyMap
    /\ productNames = EmptyMap
    /\ loadingDropdowns = <<>>
    /\ effectDeps = <<"Enclosure", FALSE, EmptyMap>>
    /\ lookups = {}
    /\ saves = {}
    /\ newRow = EmptyNewRow
    /\ newRowProductNames = {}
    /\ newRowSaving = FALSE
    /\ newAssetId = NULL
    /\ newAssetPhotos = {}
    /\ uploadingNewPhoto = NULL
    /\ adds = {}
    /\ assetDetail = ClosedDrawer
    /\ detailCalls = {}
    /\ assetsTable = InitialAssets
    /\ router = InitialRouter
    /\ tagStatuses = {}
    /\ statusRef = 0
    /\ statusDeps = <<FALSE, 0>>
    /\ statusCalls = 0
    /\ statusRequests = 0
    /\ storage = InitialStorage
    /\ uploads = {}
    /\ uploadingPhoto = NULL
    /\ budget = allowance
    /\ last = [op |-> "Init"]

(***************************************************************************)
(* Helpers that several handlers share.                                    *)
(***************************************************************************)
CanonOf(d) == CHOOSE f \in Fields : DraftOf[f] = d

\* The row as the view holds it: the backend row, a draft copy of each
\* editable column, and the two flags (absent in the source until set, and
\* only ever tested for truth, so absent is FALSE here).
Decorate(row) ==
    [k \in DOMAIN row \cup DraftNames \cup {"_editing", "_saving"} |->
        IF k \in DOMAIN row THEN row[k]
        ELSE IF k \in DraftNames THEN OrEmpty(row[CanonOf(k)])
        ELSE FALSE]

DecorateAll(data) == [i \in 1..Len(data) |-> Decorate(data[i])]

\* .from(table).select('*').eq('site_id', site)
SelectSite(table, site) == {r \in tables[table] : r.site_id = site}

\* .order('date_text', {ascending: false}): every arrangement of the rows
\* that is descending in date_text (rows with equal date_text come in an
\* order the backend chooses).
OrderDesc(rows) ==
    {data \in [1..Cardinality(rows) -> rows] :
        /\ \A i, j \in DOMAIN data : i # j => data[i] # data[j]
        /\ \A i \in DOMAIN data : i + 1 \in DOMAIN data =>
               data[i].date_text >= data[i + 1].date_text}

\* The {table, id} pairs handleSearch collects from its five results.
AllAssets(results) ==
    UNION {{[table |-> TAB_TABLE_MAP[tab], id |-> results[tab][i].id] :
               i \in DOMAIN results[tab]} : tab \in DOMAIN results}

\* A state setter: React drops updates of a component that is unmounted.
SetState(new, old) == IF mounted THEN new ELSE old

\* The listeners of the open asset-change channels that a change of a row of
\* `site` in `table` reaches, as notifications to deliver; cause is the row
\* that changed.
RowNotifs(table, site, rowId) ==
    UNION {{[gen |-> c.gen, name |-> c.name, tab |-> l.tab, cause |-> rowId] :
               l \in {x \in c.listeners : x.table = table /\ x.filter = site}} :
           c \in {ch \in channels : ch.name = "asset-changes"}}

\* The photo-insert listeners an insert into asset_photos reaches.
PhotoNotifs ==
    {[gen |-> c.gen, name |-> c.name, tab |-> "-", cause |-> "-"] :
        c \in {ch \in channels : ch.name = "photo-changes"}}

\* What the steps of the search and of the live refresh leave alone.
EditFrame == UNCHANGED <<editVars, formVars, uploadVars>>

Spend(what) == budget[what] > 0 /\ budget' = [budget EXCEPT ![what] = @ - 1]

(***************************************************************************)
(* setupRealtimeSubscriptions (396-441): remove the channels the two refs  *)
(* hold, open a channel with one listener per table filtered on the site,  *)
(* and a channel listening to inserts of photo metadata.  `gen` tells the   *)
(* channel objects of different calls apart.  Notifications on their way   *)
(* to a removed channel are dropped.                                       *)
(***************************************************************************)
\* A setup that removes no channel.
RemovedNothing == {}

RemovedBySetup ==
    {c \in channels :
        \/ c.name = "asset-changes" /\ channelRef # 0 /\ c.gen = channelRef
        \/ c.name = "photo-changes" /\ photoChannelRef # 0 /\ c.gen = photoChannelRef}

setupRealtimeSubscriptions(siteIdParam, assets, gen) ==
    LET channel ==
            [name |-> "asset-changes", gen |-> gen, assets |-> {},
             listeners |-> {[event |-> "*", tab |-> tab,
                             table |-> TAB_TABLE_MAP[tab],
                             filter |-> siteIdParam] : tab \in TabSet}]
        photoChannel ==
            [name |-> "photo-changes", gen |-> gen, assets |-> assets,
             listeners |-> {[event |-> "INSERT", tab |-> "-",
                             table |-> "asset_photos", filter |-> <<>>]}]
    IN  /\ channels' = (channels \ RemovedBySetup) \cup {channel, photoChannel}
        /\ channelRef' = gen
        /\ photoChannelRef' = gen
        /\ notifs' = {n \in notifs :
                        \A c \in RemovedBySetup : ~(c.gen = n.gen /\ c.name = n.name)}

\* The end of handleSearch's try block (326-333), once the photos are loaded.
SearchReturn(s, assets) ==
    /\ setupRealtimeSubscriptions(s.query, assets, s.id)
    /\ loading' = SetState(FALSE, loading)
    /\ searches' = searches \ {s}

\* A fresh identity for a call of handleSearch and the channel objects it
\* creates (the source tells them apart by reference).
UsedIds ==
    {0, channelRef, photoChannelRef}
        \cup {c.gen : c \in channels} \cup {s.id : s \in searches}
        \cup {p.owner[2] : p \in photoLoads} \cup {r.owner[2] : r \in refreshes}
        \cup {n.gen : n \in notifs} \cup {u.id : u \in uploads}
        \cup {a.id : a \in adds}

NextId == 1 + (CHOOSE m \in UsedIds : \A k \in UsedIds : k <= m)

(***************************************************************************)
(* handleSearch (257-335).  The query is what the search box holds when    *)
(* the handler runs.  The Enter key calls the handler whether or not a     *)
(* search is loading (899); the button is disabled while one is (902).     *)
(***************************************************************************)
handleSearch(q) ==
    /\ mounted
    /\ \/ /\ Trim(q) = <<>>
          /\ Spend("empty")
          /\ tabData' = EmptyMap
          /\ tabCounts' = EmptyMap
          /\ photos' = EmptyMap
          /\ hasSearched' = FALSE
          /\ siteId' = <<>>
          /\ UNCHANGED <<loading, error, searches>>
       \/ /\ Trim(q) # <<>>
          /\ Spend("search")
          /\ loading' = TRUE
          /\ error' = NULL
          /\ hasSearched' = TRUE
          /\ siteId' = Trim(q)
          /\ searches' = searches \cup
                {[id |-> NextId, query |-> Trim(q),
                  results |-> EmptyMap, stage |-> "fetch"]}
          /\ UNCHANGED <<tabData, tabCounts, photos>>
    /\ last' = [op |-> "handleSearch", arg |-> q]
    /\ EditFrame
    /\ UNCHANGED <<activeTab, refVars, mounted, detailVars, backendVars, photoLoads,
                   refreshes, notifs>>

\* The five queries of a search are issued in the order of TABS (276) and
\* are answered here in that order; the handler reads no answer before all
\* five are there.
NextTab(s) ==
    IF Cardinality(DOMAIN s.results) < Len(TABS)
    THEN TABS[Cardinality(DOMAIN s.results) + 1] ELSE "-"

\* One of the five parallel queries of a search is answered (278-289).
FetchTable(s, tab) ==
    /\ s \in searches /\ s.stage = "fetch" /\ tab = NextTab(s)
    /\ \E data \in OrderDesc(SelectSite(TAB_TABLE_MAP[tab], s.query)) :
          searches' = (searches \ {s}) \cup
                         {[s EXCEPT !.results = Put(@, tab, data)]}
    /\ last' = [op |-> "FetchTable", arg |-> s.query]
    /\ EditFrame
    /\ UNCHANGED <<viewVars, refVars, mounted, detailVars, backendVars, photoLoads,
                   refreshes, notifs, budget>>

\* One of the five queries answers with an error: Promise.all rejects, the
\* catch block sets the banner and finally clears loading (284-287, 329-334).
FetchTableError(s, tab) ==
    /\ s \in searches /\ s.stage = "fetch" /\ tab = NextTab(s)
    /\ Spend("failure")
    /\ error' = SetState("Failed to search assets", error)
    /\ loading' = SetState(FALSE, loading)
    /\ searches' = searches \ {s}
    /\ last' = [op |-> "FetchTableError", arg |-> s.query]
    /\ EditFrame
    /\ UNCHANGED <<siteId, activeTab, tabData, tabCounts, photos, hasSearched,
                   refVars, mounted, detailVars, backendVars, photoLoads, refreshes, notifs>>

\* A tab state built only from the results that have rows.
NewTabDataOfFilled(results) ==
    [tab \in {t \in DOMAIN results : results[t] # <<>>} |->
        DecorateAll(results[tab])]

\* newTabData and newTabCounts, built from the five results (293-309).
NewTabData(results) == [tab \in DOMAIN results |-> DecorateAll(results[tab])]

NewTabCounts(results) == [tab \in DOMAIN results |-> Len(results[tab])]

\* All five queries are answered: build and set the tab state (293-312),
\* collect the assets and start loading their photos (314-324).  With no
\* asset loadPhotosForAssets returns at once (339-342) and the search ends.
SearchJoin(s) ==
    /\ s \in searches /\ s.stage = "fetch" /\ DOMAIN s.results = TabSet
    /\ LET assets == AllAssets(s.results) IN
       /\ tabData' = SetState(NewTabData(s.results), tabData)
       /\ tabCounts' = SetState(NewTabCounts(s.results), tabCounts)
       /\ \/ /\ assets = {}
             /\ photos' = SetState(EmptyMap, photos)
             /\ SearchReturn(s, assets)
             /\ UNCHANGED photoLoads
          \/ /\ assets # {}
             /\ photoLoads' = photoLoads \cup
                   {[owner |-> <<"search", s.id>>, assets |-> assets,
                     stage |-> "query", data |-> {}]}
             /\ searches' = (searches \ {s}) \cup {[s EXCEPT !.stage = "photos"]}
             /\ UNCHANGED <<photos, loading, channels, refVars, notifs>>
    /\ last' = [op |-> "SearchJoin", arg |-> s.query]
    /\ EditFrame
    /\ UNCHANGED <<siteId, activeTab, error, hasSearched, mounted, detailVars, tables,
                   assetPhotos, refreshes, budget>>

(***************************************************************************)
(* loadPhotosForAssets (338-393).  A call with assets is a record of       *)
(* photoLoads: owner names the caller whose continuation runs when the     *)
(* call returns, stage is the await it stands at.                          *)
(***************************************************************************)
\* Group the photos by asset_table:asset_id (381-387).
PhotoMap(ps) ==
    [key \in {<<ph.asset_table, ph.asset_id>> : ph \in ps} |->
        {ph \in ps : <<ph.asset_table, ph.asset_id>> = key}]

\* .in('asset_table', tables).in('asset_id', assetIds) (347-354)
SelectPhotos(assets) ==
    {ph \in assetPhotos :
        /\ ph.asset_table \in {a.table : a \in assets}
        /\ ph.asset_id \in {a.id : a \in assets}}

\* A load that leaves out the photos whose URL could not be signed.
WithSignedUrlsDropping(data, bad) ==
    {[k \in DOMAIN ph \cup {"signedUrl"} |->
         IF k = "signedUrl" THEN "signed" ELSE ph[k]] :
        ph \in data \ bad}

\* createSignedUrl for every photo (362-379); for the photos in `bad` it fails.
WithSignedUrls(data, bad) ==
    {[k \in DOMAIN ph \cup {"signedUrl"} |->
         IF k = "signedUrl" THEN (IF ph \in bad THEN "" ELSE "signed") ELSE ph[k]] :
        ph \in data}

\* The finally block of handlePhotoUpload (657-661) for the call `id`.
UploadReturn(id) ==
    /\ uploads' = {u \in uploads : u.id # id}
    /\ uploadingPhoto' = SetState(NULL, uploadingPhoto)

\* What the steps of loadPhotosForAssets leave alone.
LoadFrame == UNCHANGED <<editVars, formVars, storage>>

\* The caller of loadPhotosForAssets goes on after the call returned.
LoadReturn(p) ==
    /\ photoLoads' = photoLoads \ {p}
    /\ \/ /\ p.owner[1] = "search"
          /\ \E s \in searches : s.id = p.owner[2] /\ SearchReturn(s, p.assets)
          /\ UNCHANGED <<uploads, uploadingPhoto>>
       \/ /\ p.owner[1] = "listener"
          /\ UNCHANGED <<loading, searches, channels, refVars, notifs,
                         uploads, uploadingPhoto>>
       \/ /\ p.owner[1] = "upload"
          /\ UploadReturn(p.owner[2])
          /\ UNCHANGED <<loading, searches, channels, refVars, notifs>>

\* The metadata query is answered (350-354).  With no photo found there is
\* nothing to sign and the (empty) photo map is set at once.
PhotoQuery(p) ==
    /\ p \in photoLoads /\ p.stage = "query"
    /\ LET data == SelectPhotos(p.assets) IN
       \/ /\ data = {}
          /\ photos' = SetState(EmptyMap, photos)
          /\ LoadReturn(p)
       \/ /\ data # {}
          /\ photoLoads' = (photoLoads \ {p}) \cup
                {[p EXCEPT !.stage = "sign", !.data = data]}
          /\ UNCHANGED <<photos, loading, searches, channels, refVars, notifs,
                         uploads, uploadingPhoto>>
    /\ last' = [op |-> "PhotoQuery", arg |-> p.owner]
    /\ LoadFrame
    /\ UNCHANGED <<siteId, activeTab, tabData, tabCounts, error, hasSearched,
                   mounted, detailVars, tables, assetPhotos, refreshes, budget>>

\* The metadata query answers with an error: logged, photos kept (356-359).
PhotoQueryError(p) ==
    /\ p \in photoLoads /\ p.stage = "query"
    /\ Spend("failure")
    /\ LoadReturn(p)
    /\ last' = [op |-> "PhotoQueryError", arg |-> p.owner]
    /\ LoadFrame
    /\ UNCHANGED <<siteId, activeTab, tabData, tabCounts, photos, error,
                   hasSearched, mounted, detailVars, tables, assetPhotos, refreshes>>

\* All signing calls are answered, those of `bad` with an error: the photo
\* map is set (381-389).
PhotoSigned(p) ==
    /\ p \in photoLoads /\ p.stage = "sign"
    /\ \E bad \in SUBSET p.data :
          /\ Cardinality(bad) <= budget.failure
          /\ budget' = [budget EXCEPT !.failure = @ - Cardinality(bad)]
          /\ photos' = SetState(PhotoMap(WithSignedUrls(p.data, bad)), photos)
    /\ LoadReturn(p)
    /\ last' = [op |-> "PhotoSigned", arg |-> p.owner]
    /\ LoadFrame
    /\ UNCHANGED <<siteId, activeTab, tabData, tabCounts, error, hasSearched,
                   mounted, detailVars, tables, assetPhotos, refreshes>>

(***************************************************************************)
(* refreshTabData (444-475).                                               *)
(***************************************************************************)
\* The re-fetch of one table is answered.
RefreshQuery(r) ==
    /\ r \in refreshes /\ r.stage = "query"
    /\ \E data \in OrderDesc(SelectSite(TAB_TABLE_MAP[r.tab], r.site)) :
          refreshes' = (refreshes \ {r}) \cup
                          {[r EXCEPT !.stage = "apply", !.data = data]}
    /\ last' = [op |-> "RefreshQuery", arg |-> r.site]
    /\ EditFrame
    /\ UNCHANGED <<viewVars, refVars, mounted, detailVars, backendVars, searches,
                   photoLoads, notifs, budget>>

\* The caller of refreshTabData goes on after the call returned, whether
\* the query failed or not (472-474): a listener has nothing more to do,
\* handleAddNewRow ends with its finally block (783-791).
RefreshReturn(r) ==
    IF r.owner[1] = "add"
    THEN /\ newRowSaving' = SetState(FALSE, newRowSaving)
         /\ adds' = {a \in adds : a.id # r.owner[2]}
         /\ UNCHANGED <<newRow, newRowProductNames, newAssetId, newAssetPhotos,
                        uploadingNewPhoto>>
    ELSE UNCHANGED formVars

\* The re-fetch answers with an error: logged only (453, 472-474).
RefreshQueryError(r) ==
    /\ r \in refreshes /\ r.stage = "query"
    /\ Spend("failure")
    /\ refreshes' = refreshes \ {r}
    /\ RefreshReturn(r)
    /\ last' = [op |-> "RefreshQueryError", arg |-> r.site]
    /\ UNCHANGED <<editVars, uploadVars>>
    /\ UNCHANGED <<viewVars, refVars, mounted, detailVars, backendVars, searches,
                   photoLoads, notifs>>

\* A tab state that holds the re-fetched tab and nothing of the others.
RefreshedTabDataAlone(prev, tab, data) ==
    [t \in DOMAIN prev \cup {tab} |-> IF t = tab THEN DecorateAll(data) ELSE <<>>]

\* The two functional updates of refreshTabData (455-471).
RefreshedTabData(prev, tab, data) == Put(prev, tab, DecorateAll(data))

RefreshedTabCounts(prev, tab, data) == Put(prev, tab, Len(data))

RefreshApply(r) ==
    /\ r \in refreshes /\ r.stage = "apply"
    /\ tabData' = SetState(RefreshedTabData(tabData, r.tab, r.data), tabData)
    /\ tabCounts' = SetState(RefreshedTabCounts(tabCounts, r.tab, r.data), tabCounts)
    /\ refreshes' = refreshes \ {r}
    /\ RefreshReturn(r)
    /\ last' = [op |-> "RefreshApply", arg |-> r.site]
    /\ UNCHANGED <<editVars, uploadVars>>
    /\ UNCHANGED <<siteId, activeTab, photos, loading, error, hasSearched,
                   refVars, mounted, detailVars, backendVars, searches, photoLoads, notifs,
                   budget>>

(***************************************************************************)
(* The realtime channels (396-441) deliver a notification: the listener    *)
(* of the table calls refreshTabData(tab, siteIdParam) (412-415), the      *)
(* photo listener calls loadPhotosForAssets(assets) (430-434), both with   *)
(* the values setupRealtimeSubscriptions was called with.                  *)
(***************************************************************************)
Deliver(n) ==
    /\ n \in notifs
    /\ notifs' = notifs \ {n}
    /\ \E c \in channels :
          /\ c.gen = n.gen /\ c.name = n.name
          /\ \/ /\ c.name = "asset-changes"
                /\ \E l \in c.listeners :
                      /\ l.tab = n.tab
                      /\ refreshes' = refreshes \cup
                            {[tab |-> l.tab, site |-> l.filter,
                              cause |-> n.cause,
                              owner |-> <<"listener", c.gen>>,
                              stage |-> "query", data |-> <<>>]}
                /\ UNCHANGED <<photos, photoLoads>>
             \/ /\ c.name = "photo-changes" /\ c.assets = {}
                /\ photos' = SetState(EmptyMap, photos)
                /\ UNCHANGED <<refreshes, photoLoads>>
             \/ /\ c.name = "photo-changes" /\ c.assets # {}
                /\ photoLoads' = photoLoads \cup
                      {[owner |-> <<"listener", c.gen>>, assets |-> c.assets,
                        stage |-> "query", data |-> {}]}
                /\ UNCHANGED <<photos, refreshes>>
    /\ last' = [op |-> "Deliver", arg |-> n.name]
    /\ EditFrame
    /\ UNCHANGED <<siteId, activeTab, tabData, tabCounts, loading, error,
                   hasSearched, refVars, mounted, detailVars, backendVars, searches, budget>>

\* Another client changes the serial of a row; the backend notifies the
\* listeners whose table and site filter match the row.
ExternalChange(table, id) ==
    /\ Spend("external")
    /\ \E row \in tables[table] :
          /\ row.id = id
          /\ tables' = [tables EXCEPT ![table] =
                           (@ \ {row}) \cup {[row EXCEPT !.serial = "SX"]}]
          /\ notifs' = notifs \cup RowNotifs(table, row.site_id, row.id)
    /\ last' = [op |-> "ExternalChange", arg |-> id]
    /\ EditFrame
    /\ UNCHANGED <<viewVars, refVars, mounted, detailVars, assetPhotos, channels, searches,
                   photoLoads, refreshes>>

(***************************************************************************)
(* The component unmounts: the cleanup of the effect at 106-116 removes    *)
(* the channels the refs hold.  The state of the instance is discarded     *)
(* (shown here as the initial values); requests in flight go on.           *)
(***************************************************************************)
Unmount ==
    /\ mounted
    /\ mounted' = FALSE
    /\ channels' = channels \ RemovedBySetup
    /\ notifs' = {n \in notifs :
                    \A c \in RemovedBySetup : ~(c.gen = n.gen /\ c.name = n.name)}
    /\ siteId' = <<>>
    /\ activeTab' = "Enclosure"
    /\ tabData' = EmptyMap
    /\ tabCounts' = EmptyMap
    /\ photos' = EmptyMap
    /\ loading' = FALSE
    /\ error' = NULL
    /\ hasSearched' = FALSE
    /\ equipmentTypes' = EmptyMap
    /\ productNames' = EmptyMap
    /\ loadingDropdowns' = <<>>
    /\ effectDeps' = <<"Enclosure", FALSE, EmptyMap>>
    /\ newRow' = EmptyNewRow
    /\ newRowProductNames' = {}
    /\ newRowSaving' = FALSE
    /\ newAssetId' = NULL
    /\ newAssetPhotos' = {}
    /\ uploadingNewPhoto' = NULL
    /\ uploadingPhoto' = NULL
    /\ UNCHANGED <<lookups, saves, adds, storage, uploads, detailVars>>
    /\ last' = [op |-> "Unmount", arg |-> 0]
    /\ UNCHANGED <<refVars, tables, assetPhotos, searches, photoLoads,
                   refreshes, budget>>

(***************************************************************************)
(* The lookup views and the product catalog, as the backend holds them.    *)
(***************************************************************************)
EquipmentTypesOf(category) ==
    IF category = "Enclosure" THEN {"ET1", "ET2"} ELSE {}

ProductNamesOf(category, equipmentType) ==
    CASE category = "Enclosure" /\ equipmentType = "ET1" -> {"PN1"}
      [] category = "Enclosure" /\ equipmentType = "ET2" -> {"PN2"}
      [] OTHER -> {}

ProductCatalog ==
    {[product_name |-> "PN1", category |-> "Enclosure", equipment_type |-> "ET1",
      product_number |-> "N1"],
     [product_name |-> "PN2", category |-> "Enclosure", equipment_type |-> "ET2",
      product_number |-> "N2"],
     [product_name |-> "PN1", category |-> "RAN-Active", equipment_type |-> "ET3",
      product_number |-> "N3"]}

\* The answers the query of fetchProductNumber can give (176-190, 196-200):
\* the product number of one matching catalog row (limit 1 without an
\* order), or none.  An empty category or equipment type adds no filter.
ProductNumbersOf(productName, category, equipmentType) ==
    LET hit == {c \in ProductCatalog :
                   /\ c.product_name = productName
                   /\ category # "" => c.category = category
                   /\ equipmentType # "" => c.equipment_type = equipmentType}
    IN  IF hit = {} THEN {NULL} ELSE {c.product_number : c \in hit}

\* The cache key of fetchProductNames (147).
CacheKey(category, equipmentType) == <<category, equipmentType>>

\* The rows prev holds under the key tab.
RowsOf(prev, tab) ==
    IF tab \in DOMAIN prev THEN {prev[tab][i] : i \in DOMAIN prev[tab]} ELSE {}

\* prev[tab]?.map(f) || []  written back under the key tab (479-484 and
\* alike); f maps each row of prev[tab] to the row that replaces it.
MapTab(prev, tab, f) ==
    Put(prev, tab,
        IF tab \in DOMAIN prev
        THEN [i \in DOMAIN prev[tab] |-> f[prev[tab][i]]]
        ELSE <<>>)

\* The rows the results table shows (881, 1127, 1146): those of the active
\* tab, and none while a search is loading (912-914).
ShownRows ==
    IF mounted /\ ~loading /\ activeTab \in DOMAIN tabData
    THEN {tabData[activeTab][i] : i \in DOMAIN tabData[activeTab]}
    ELSE {}

\* The form of the new row is offered (912-914, 929); opening it with the
\* button at 932-937 is part of the first use of the form.
FormShown == mounted /\ ~loading /\ hasSearched /\ siteId # <<>>

\* A query of a lookup view or of the catalog that is not answered yet.
\* caller is the handler that awaits it: the effect, a handler of a row,
\* or a handler of the form of the new row.
Lookup(view, caller, tab, rowId, equipmentType, productName) ==
    [view |-> view, caller |-> caller, tab |-> tab, rowId |-> rowId,
     equipment_type |-> equipmentType, product_name |-> productName,
     fallback |-> FALSE]

(***************************************************************************)
(* The effect at 243-247: after a render in which activeTab, hasSearched   *)
(* or fetchEquipmentTypes (that is, equipmentTypes) changed, load the      *)
(* equipment types of the active tab unless they are cached (121).         *)
(***************************************************************************)
EquipmentTypesEffect ==
    /\ mounted
    /\ effectDeps # <<activeTab, hasSearched, equipmentTypes>>
    /\ effectDeps' = <<activeTab, hasSearched, equipmentTypes>>
    /\ lookups' =
          IF hasSearched /\ activeTab \notin DOMAIN equipmentTypes
          THEN lookups \cup {Lookup("v_equipment_types", "effect", activeTab, "", "", "")}
          ELSE lookups
    /\ last' = [op |-> "EquipmentTypesEffect", arg |-> activeTab]
    /\ UNCHANGED <<viewVars, refVars, mounted, detailVars, backendVars, flightVars,
                   equipmentTypes, productNames, loadingDropdowns, saves,
                   formVars, uploadVars, budget>>

\* The handler that awaited the lookup l goes on with its result:
\* handleEquipmentTypeChange (506), handleProductNameChange (526-538),
\* handleNewRowEquipmentTypeChange (710), handleNewRowProductNameChange
\* (722-725).
LookupReturn(l, result) ==
    LET Fill(r) == IF r.id = l.rowId THEN [r EXCEPT !._product_number = result] ELSE r
    IN  /\ tabData' =
              IF l.caller = "row" /\ l.view = "product_catalog" /\ result # NULL
              THEN SetState(MapTab(tabData, l.tab,
                                   [r \in RowsOf(tabData, l.tab) |-> Fill(r)]),
                            tabData)
              ELSE tabData
        /\ loadingDropdowns' =
              IF l.caller = "row" THEN SetState(<<>>, loadingDropdowns)
              ELSE loadingDropdowns
        /\ newRow' =
              IF l.caller = "form" /\ l.view = "product_catalog" /\ result # NULL
              THEN SetState([newRow EXCEPT !.product_number = result], newRow)
              ELSE newRow
        /\ newRowProductNames' =
              IF l.caller = "form" /\ l.view = "v_product_names"
              THEN SetState(result, newRowProductNames)
              ELSE newRowProductNames
        /\ UNCHANGED addVars

\* What the backend can answer to the lookup l.
LookupResults(l) ==
    CASE l.view = "v_equipment_types" -> {EquipmentTypesOf(l.tab)}
      [] l.view = "v_product_names" -> {ProductNamesOf(l.tab, l.equipment_type)}
      [] l.view = "product_catalog" ->
            IF l.fallback THEN ProductNumbersOf(l.product_name, "", "")
            ELSE ProductNumbersOf(l.product_name, l.tab, l.equipment_type)

\* A lookup is answered (124-137, 151-165, 191-209).
LookupAnswer(l) ==
    /\ l \in lookups
    /\ lookups' = lookups \ {l}
    /\ \E result \in LookupResults(l) :
          /\ equipmentTypes' =
                IF l.view = "v_equipment_types"
                THEN SetState(Put(equipmentTypes, l.tab, result), equipmentTypes)
                ELSE equipmentTypes
          /\ productNames' =
                IF l.view = "v_product_names"
                THEN SetState(Put(productNames, CacheKey(l.tab, l.equipment_type),
                                  result), productNames)
                ELSE productNames
          /\ LookupReturn(l, result)
    /\ last' = [op |-> "LookupAnswer", arg |-> l.view]
    /\ UNCHANGED <<siteId, activeTab, tabCounts, photos, loading, error,
                   hasSearched, refVars, mounted, detailVars, backendVars, flightVars,
                   effectDeps, saves, uploadVars, budget>>

\* fetchProductNumber without its second query: an error of the catalog
\* gives no product number at once.
LookupErrorNoFallback(l) ==
    /\ l \in lookups
    /\ Spend("failure")
    /\ lookups' = lookups \ {l}
    /\ error' =
          CASE l.view = "v_equipment_types" ->
                  SetState("Failed to load equipment types", error)
            [] l.view = "v_product_names" ->
                  SetState("Failed to load product names", error)
            [] OTHER -> error
    /\ LookupReturn(l, IF l.view = "product_catalog" THEN NULL ELSE {})
    /\ last' = [op |-> "LookupError", arg |-> l.view]
    /\ UNCHANGED <<siteId, activeTab, tabCounts, photos, loading, hasSearched,
                   refVars, mounted, detailVars, backendVars, flightVars, equipmentTypes,
                   productNames, effectDeps, saves, uploadVars>>

\* A lookup answers with an error.  The views: banner, nothing cached, the
\* result is empty (129-133, 157-161).  The catalog: the query is repeated
\* without its filters, and a second error gives no product number
\* (191-206).
LookupError(l) ==
    /\ l \in lookups
    /\ Spend("failure")
    /\ IF l.view = "product_catalog" /\ ~l.fallback
       THEN /\ lookups' = (lookups \ {l}) \cup {[l EXCEPT !.fallback = TRUE]}
            /\ UNCHANGED <<error, tabData, loadingDropdowns, formVars>>
       ELSE /\ lookups' = lookups \ {l}
            /\ error' =
                  CASE l.view = "v_equipment_types" ->
                          SetState("Failed to load equipment types", error)
                    [] l.view = "v_product_names" ->
                          SetState("Failed to load product names", error)
                    [] OTHER -> error
            /\ LookupReturn(l, IF l.view = "product_catalog" THEN NULL ELSE {})
    /\ last' = [op |-> "LookupError", arg |-> l.view]
    /\ UNCHANGED <<siteId, activeTab, tabCounts, photos, loading, hasSearched,
                   refVars, mounted, detailVars, backendVars, flightVars, equipmentTypes,
                   productNames, effectDeps, saves, uploadVars>>

(***************************************************************************)
(* Editing a row (478-539).                                                *)
(***************************************************************************)
\* What the user types into the text inputs of a row (1195-1245).
TypedValues ==
    [_serial |-> {"S9"}, _tag |-> {"T9"}]

\* handleFieldChange writing the typed value into the canonical field as
\* well as into its draft.
FieldChangedInPlace(row, field, value) ==
    LET canon == CHOOSE f \in Fields : DraftOf[f] = field
    IN  [row EXCEPT ![field] = value, ![canon] = value, !._editing = TRUE]

\* The row after handleFieldChange (482).
FieldChanged(row, field, value) ==
    [row EXCEPT ![field] = value, !._editing = TRUE]

handleFieldChange(rowId, field, value) ==
    /\ \E row \in ShownRows : row.id = rowId /\ row[field] # value
    /\ Spend("edit")
    /\ LET Change(r) == IF r.id = rowId THEN FieldChanged(r, field, value) ELSE r
       IN  tabData' = MapTab(tabData, activeTab,
                           [r \in RowsOf(tabData, activeTab) |-> Change(r)])
    /\ last' = [op |-> "handleFieldChange", arg |-> <<activeTab, rowId, field>>]
    /\ UNCHANGED <<siteId, activeTab, tabCounts, photos, loading, error,
                   hasSearched, refVars, mounted, detailVars, backendVars, flightVars,
                   editVars, formVars, uploadVars>>

\* A handler that sets the equipment type and keeps the dependent drafts.
EquipmentTypeChangedOnly(row, value) ==
    [row EXCEPT !._equipment_type = value, !._editing = TRUE]

\* The row after handleEquipmentTypeChange (495-497).
EquipmentTypeChanged(row, value) ==
    [row EXCEPT !._equipment_type = value, !._product_name = "",
                !._product_number = "", !._editing = TRUE]

\* The options of a row's equipment-type select (1167-1174).
EquipmentTypeOptions(row) ==
    {""} \cup Get(equipmentTypes, activeTab, {})
         \cup (IF row._equipment_type # "" THEN {row._equipment_type} ELSE {})

\* handleEquipmentTypeChange (488-507): one update sets the equipment type
\* and clears the two dependent drafts; then the product names of the new
\* type are fetched unless they are cached (148) or the type is empty (502).
\* Without a request the handler ends in the same step (506).
handleEquipmentTypeChange(rowId, value) ==
    /\ loadingDropdowns # <<rowId, "product">>
    /\ \E row \in ShownRows :
          /\ row.id = rowId
          /\ value \in EquipmentTypeOptions(row) \ {row._equipment_type}
    /\ Spend("edit")
    /\ LET Change(r) == IF r.id = rowId THEN EquipmentTypeChanged(r, value) ELSE r
       IN  tabData' = MapTab(tabData, activeTab,
                           [r \in RowsOf(tabData, activeTab) |-> Change(r)])
    /\ IF value # "" /\ CacheKey(activeTab, value) \notin DOMAIN productNames
       THEN /\ lookups' = lookups \cup
                  {Lookup("v_product_names", "row", activeTab, rowId, value, "")}
            /\ loadingDropdowns' = <<rowId, "product">>
       ELSE /\ lookups' = lookups
            /\ loadingDropdowns' = <<>>
    /\ last' = [op |-> "handleEquipmentTypeChange", arg |-> <<activeTab, rowId, value>>]
    /\ UNCHANGED <<siteId, activeTab, tabCounts, photos, loading, error,
                   hasSearched, refVars, mounted, detailVars, backendVars, flightVars,
                   equipmentTypes, productNames, effectDeps, saves,
                   formVars, uploadVars>>

\* The row after the first update of handleProductNameChange (516-518).
ProductNameChanged(row, value) ==
    [row EXCEPT !._product_name = value, !._editing = TRUE]

\* The options of a row's product-name select (1185-1192).
ProductNameOptions(row) ==
    {""} \cup Get(productNames, CacheKey(activeTab, row._equipment_type), {})
         \cup (IF row._product_name # "" THEN {row._product_name} ELSE {})

\* handleProductNameChange (510-539): set the product name, then ask the
\* catalog for its product number unless the name is empty.
handleProductNameChange(rowId, value) ==
    /\ loadingDropdowns # <<rowId, "product_number">>
    /\ \E row \in ShownRows :
          /\ row.id = rowId /\ row._equipment_type # ""
          /\ value \in ProductNameOptions(row) \ {row._product_name}
          /\ lookups' =
                IF value # ""
                THEN lookups \cup {Lookup("product_catalog", "row", activeTab, rowId,
                                          row._equipment_type, value)}
                ELSE lookups
    /\ Spend("edit")
    /\ LET Change(r) == IF r.id = rowId THEN ProductNameChanged(r, value) ELSE r
       IN  tabData' = MapTab(tabData, activeTab,
                           [r \in RowsOf(tabData, activeTab) |-> Change(r)])
    /\ loadingDropdowns' = IF value # "" THEN <<rowId, "product_number">> ELSE <<>>
    /\ last' = [op |-> "handleProductNameChange", arg |-> <<activeTab, rowId, value>>]
    /\ UNCHANGED <<siteId, activeTab, tabCounts, photos, loading, error,
                   hasSearched, refVars, mounted, detailVars, backendVars, flightVars,
                   equipmentTypes, productNames, effectDeps, saves,
                   formVars, uploadVars>>

(***************************************************************************)
(* The form of the new row (705-727, 947-985).                             *)
(***************************************************************************)
\* The form after the update of handleNewRowEquipmentTypeChange (706).
NewRowEquipmentTypeChanged(prev, value) ==
    [prev EXCEPT !.equipment_type = value, !.product_name = "",
                 !.product_number = ""]

\* handleNewRowEquipmentTypeChange (705-714): set the type and clear the two
\* dependent fields, then take the product names of the type from the
\* cache (148), from the backend, or none for an empty type.
handleNewRowEquipmentTypeChange(value) ==
    /\ FormShown
    /\ value \in ({""} \cup Get(equipmentTypes, activeTab, {})) \ {newRow.equipment_type}
    /\ Spend("form")
    /\ newRow' = NewRowEquipmentTypeChanged(newRow, value)
    /\ CASE value = "" ->
              newRowProductNames' = {} /\ lookups' = lookups
         [] value # "" /\ CacheKey(activeTab, value) \in DOMAIN productNames ->
              /\ newRowProductNames' = productNames[CacheKey(activeTab, value)]
              /\ lookups' = lookups
         [] OTHER ->
              /\ lookups' = lookups \cup
                    {Lookup("v_product_names", "form", activeTab, "", value, "")}
              /\ UNCHANGED newRowProductNames
    /\ last' = [op |-> "handleNewRowEquipmentTypeChange", arg |-> value]
    /\ UNCHANGED <<viewVars, refVars, mounted, detailVars, backendVars, flightVars,
                   equipmentTypes, productNames, loadingDropdowns, effectDeps,
                   saves, addVars, uploadVars>>

\* handleNewRowProductNameChange (717-727): set the name, then ask the
\* catalog for its product number unless the name is empty.
handleNewRowProductNameChange(value) ==
    /\ FormShown
    /\ newRow.equipment_type # ""
    /\ value \in ({""} \cup newRowProductNames) \ {newRow.product_name}
    /\ Spend("form")
    /\ newRow' = [newRow EXCEPT !.product_name = value]
    /\ lookups' =
          IF value # ""
          THEN lookups \cup {Lookup("product_catalog", "form", activeTab, "",
                                    newRow.equipment_type, value)}
          ELSE lookups
    /\ last' = [op |-> "handleNewRowProductNameChange", arg |-> value]
    /\ UNCHANGED <<viewVars, refVars, mounted, detailVars, backendVars, flightVars,
                   equipmentTypes, productNames, loadingDropdowns, effectDeps,
                   saves, newRowProductNames, addVars, uploadVars>>

\* What the user types into the product-number input of the form (976-983).
TypedProductNumbers == {"N9"}

\* The setter of the product-number input (979).
setNewRowProductNumber(value) ==
    /\ FormShown
    /\ newRow.product_number # value
    /\ Spend("form")
    /\ newRow' = [newRow EXCEPT !.product_number = value]
    /\ last' = [op |-> "setNewRowProductNumber", arg |-> value]
    /\ UNCHANGED <<viewVars, refVars, mounted, detailVars, backendVars, flightVars,
                   editVars, newRowProductNames, addVars, uploadVars>>

(***************************************************************************)
(* handleSaveRow (542-600).  `row` is the row of the render the button     *)
(* was clicked in; the button is enabled when the row is edited and not    *)
(* being saved (1295).                                                     *)
(***************************************************************************)
\* The columns the update call writes (556-564).
UpdateOf(row) == [f \in Fields |-> row[DraftOf[f]]]

\* A backend row after .update(values).
Updated(dbRow, values) ==
    [k \in DOMAIN dbRow |-> IF k \in DOMAIN values THEN values[k] ELSE dbRow[k]]

\* A promotion of the draft that leaves the edited flag as it is.
SavedRowStillEdited(r, row) ==
    [k \in DOMAIN r |->
        IF k \in Fields THEN row[DraftOf[k]]
        ELSE IF k = "_saving" THEN FALSE
        ELSE r[k]]

\* The row r of the view after the save of `row` succeeded (574-585).
SavedRow(r, row) ==
    [k \in DOMAIN r |->
        IF k \in Fields THEN row[DraftOf[k]]
        ELSE IF k \in {"_editing", "_saving"} THEN FALSE
        ELSE r[k]]

handleSaveRow(rowId) ==
    /\ \E row \in ShownRows :
          /\ row.id = rowId /\ row._editing /\ ~row._saving
          /\ saves' = saves \cup {[tab |-> activeTab, row |-> row, stage |-> "update"]}
    /\ Spend("save")
    /\ LET Mark(r) == IF r.id = rowId THEN [r EXCEPT !._saving = TRUE] ELSE r
       IN  tabData' = MapTab(tabData, activeTab,
                           [r \in RowsOf(tabData, activeTab) |-> Mark(r)])
    /\ UNCHANGED <<formVars, uploadVars>>
    /\ last' = [op |-> "handleSaveRow", arg |-> <<activeTab, rowId>>]
    /\ UNCHANGED <<siteId, activeTab, tabCounts, photos, loading, error,
                   hasSearched, refVars, mounted, detailVars, backendVars, flightVars,
                   equipmentTypes, productNames, loadingDropdowns, effectDeps,
                   lookups>>

\* The backend runs the update .eq('id', row.id) and notifies the listeners.
SaveUpdate(sv) ==
    /\ sv \in saves /\ sv.stage = "update"
    /\ LET table == TAB_TABLE_MAP[sv.tab]
           hit == {r \in tables[table] : r.id = sv.row.id}
       IN  /\ tables' = [tables EXCEPT ![table] =
                            (@ \ hit) \cup {Updated(r, UpdateOf(sv.row)) : r \in hit}]
           /\ notifs' = notifs \cup UNION {RowNotifs(table, r.site_id, r.id) : r \in hit}
    /\ saves' = (saves \ {sv}) \cup {[sv EXCEPT !.stage = "done"]}
    /\ UNCHANGED <<formVars, uploadVars>>
    /\ last' = [op |-> "SaveUpdate", arg |-> <<sv.tab, sv.row.id>>]
    /\ UNCHANGED <<viewVars, refVars, mounted, detailVars, assetPhotos, channels, searches,
                   photoLoads, refreshes, equipmentTypes, productNames,
                   loadingDropdowns, effectDeps, lookups, budget>>

\* The catch of handleSaveRow ending the edit as the success path does: the
\* draft is promoted although the update failed.
SaveErrorEndsEdit(sv) ==
    /\ sv \in saves /\ sv.stage = "update"
    /\ Spend("failure")
    /\ saves' = saves \ {sv}
    /\ error' = SetState("Failed to save", error)
    /\ LET Reset(r) == IF r.id = sv.row.id THEN SavedRow(r, sv.row) ELSE r
       IN  tabData' = SetState(MapTab(tabData, sv.tab,
                                    [r \in RowsOf(tabData, sv.tab) |-> Reset(r)]),
                             tabData)
    /\ UNCHANGED <<formVars, uploadVars>>
    /\ last' = [op |-> "SaveError", arg |-> <<sv.tab, sv.row.id>>]
    /\ UNCHANGED <<siteId, activeTab, tabCounts, photos, loading, hasSearched,
                   refVars, mounted, detailVars, backendVars, flightVars, equipmentTypes,
                   productNames, loadingDropdowns, effectDeps, lookups>>

\* The update answers with an error: banner, and the saving flag is reset
\* (589-599).
SaveError(sv) ==
    /\ sv \in saves /\ sv.stage = "update"
    /\ Spend("failure")
    /\ saves' = saves \ {sv}
    /\ error' = SetState("Failed to save", error)
    /\ LET Reset(r) == IF r.id = sv.row.id THEN [r EXCEPT !._saving = FALSE] ELSE r
       IN  tabData' = SetState(MapTab(tabData, sv.tab,
                                    [r \in RowsOf(tabData, sv.tab) |-> Reset(r)]),
                             tabData)
    /\ UNCHANGED <<formVars, uploadVars>>
    /\ last' = [op |-> "SaveError", arg |-> <<sv.tab, sv.row.id>>]
    /\ UNCHANGED <<siteId, activeTab, tabCounts, photos, loading, hasSearched,
                   refVars, mounted, detailVars, backendVars, flightVars, equipmentTypes,
                   productNames, loadingDropdowns, effectDeps, lookups>>

\* The update succeeded: the draft is promoted into the row (570-588).
SaveApply(sv) ==
    /\ sv \in saves /\ sv.stage = "done"
    /\ saves' = saves \ {sv}
    /\ LET Promote(r) == IF r.id = sv.row.id THEN SavedRow(r, sv.row) ELSE r
       IN  tabData' = SetState(MapTab(tabData, sv.tab,
                                    [r \in RowsOf(tabData, sv.tab) |-> Promote(r)]),
                             tabData)
    /\ UNCHANGED <<formVars, uploadVars>>
    /\ last' = [op |-> "SaveApply", arg |-> <<sv.tab, sv.row.id>>]
    /\ UNCHANGED <<siteId, activeTab, tabCounts, photos, loading, error,
                   hasSearched, refVars, mounted, detailVars, backendVars, flightVars,
                   equipmentTypes, productNames, loadingDropdowns, effectDeps,
                   lookups, budget>>

(***************************************************************************)
(* handlePhotoUpload (603-661).  The file input of a row is always enabled *)
(* (1261-1266).  tabData and siteId are those of the render the file was   *)
(* chosen in.                                                              *)
(***************************************************************************)
PhotoTypes == {"serial", "tag"}

\* The files the user can choose.
UploadFiles ==
    {[name |-> "a.jpg", content |-> "X1"], [name |-> "b.jpg", content |-> "X2"]}

\* .upload(storagePath, file, {upsert: true}) (621-623)
Upserted(bucket, path, file) == Put(bucket, path, file.content)

\* A table after the insert of one metadata record.
ReplacingPhoto(rows, rec) ==
    {ph \in rows : ~(/\ ph.asset_table = rec.asset_table
                     /\ ph.asset_id = rec.asset_id
                     /\ ph.photo_type = rec.photo_type)} \cup {rec}

\* .from('asset_photos').insert(record) (629-638)
InsertedPhoto(rows, rec) == rows \cup {rec}

\* A metadata record that names the file but not the path it was stored at.
PhotoRecordByName(u) ==
    [id |-> 1 + (CHOOSE m \in {0} \cup {ph.id : ph \in assetPhotos} :
                    \A ph \in assetPhotos : ph.id <= m),
     asset_id |-> u.rowId, asset_table |-> TAB_TABLE_MAP[u.tab],
     photo_type |-> u.photoType, storage_path |-> <<u.file.name>>]

\* The metadata record of an upload; the backend gives it a fresh id.
PhotoRecord(u) ==
    [id |-> 1 + (CHOOSE m \in {0} \cup {ph.id : ph \in assetPhotos} :
                    \A ph \in assetPhotos : ph.id <= m),
     asset_id |-> u.rowId, asset_table |-> TAB_TABLE_MAP[u.tab],
     photo_type |-> u.photoType, storage_path |-> u.path]

handlePhotoUpload(rowId, photoType, file) ==
    /\ \E row \in ShownRows : row.id = rowId
    /\ Spend("upload")
    /\ uploadingPhoto' = <<rowId, photoType>>
    /\ uploads' = uploads \cup
          {[id |-> NextId, handler |-> "row", tab |-> activeTab, rowId |-> rowId,
            photoType |-> photoType, file |-> file,
            path |-> StoragePath(siteId, TAB_TABLE_MAP[activeTab], rowId,
                                 photoType, file.name),
            assets |-> AllAssets(tabData), stage |-> "store"]}
    /\ last' = [op |-> "handlePhotoUpload", arg |-> <<rowId, photoType, file.name>>]
    /\ UNCHANGED <<viewVars, refVars, mounted, detailVars, backendVars, flightVars,
                   editVars, formVars, storage>>

\* The bucket stores the file (621-625).
UploadStore(u) ==
    /\ u \in uploads /\ u.stage = "store"
    /\ storage' = Upserted(storage, u.path, u.file)
    /\ uploads' = (uploads \ {u}) \cup {[u EXCEPT !.stage = "insert"]}
    /\ last' = [op |-> "UploadStore", arg |-> u.id]
    /\ UNCHANGED <<viewVars, refVars, mounted, detailVars, backendVars, flightVars,
                   editVars, formVars, uploadingPhoto, budget>>

\* The metadata record is inserted (629-640) and the listeners of inserts
\* are notified; then the photos of the assets of the view are loaded
\* (643-651), which with no asset returns at once (339-342).
UploadInsert(u) ==
    /\ u \in uploads /\ u.stage = "insert" /\ u.handler = "row"
    /\ assetPhotos' = InsertedPhoto(assetPhotos, PhotoRecord(u))
    /\ notifs' = notifs \cup PhotoNotifs
    /\ \/ /\ u.assets = {}
          /\ photos' = SetState(EmptyMap, photos)
          /\ UploadReturn(u.id)
          /\ UNCHANGED photoLoads
       \/ /\ u.assets # {}
          /\ photoLoads' = photoLoads \cup
                {[owner |-> <<"upload", u.id>>, assets |-> u.assets,
                  stage |-> "query", data |-> {}]}
          /\ uploads' = (uploads \ {u}) \cup {[u EXCEPT !.stage = "load"]}
          /\ UNCHANGED <<photos, uploadingPhoto>>
    /\ last' = [op |-> "UploadInsert", arg |-> u.id]
    /\ UNCHANGED <<siteId, activeTab, tabData, tabCounts, loading, error,
                   hasSearched, refVars, mounted, detailVars, tables, channels, searches,
                   refreshes, editVars, formVars, storage, budget>>

\* The bucket or the insert answers with an error: banner, and the finally
\* block (624, 640, 653-661).
UploadError(u) ==
    /\ u \in uploads /\ u.stage \in {"store", "insert"} /\ u.handler = "row"
    /\ Spend("failure")
    /\ error' = SetState("Failed to upload photo", error)
    /\ UploadReturn(u.id)
    /\ last' = [op |-> "UploadError", arg |-> u.id]
    /\ UNCHANGED <<siteId, activeTab, tabData, tabCounts, photos, loading,
                   hasSearched, refVars, mounted, detailVars, backendVars, flightVars,
                   editVars, formVars, storage>>

(***************************************************************************)
(* handleAddNewRow (729-793).  The button is shown while no new asset id   *)
(* is held (1089) and is disabled while a row is being saved (1094).       *)
(***************************************************************************)
\* The statuses the select of the form offers once fetchTagStatuses
\* (216-240) has loaded them.
TagStatuses == {"OK"}

\* The setter of the status select of the form (1008).
setNewRowStatus(value) ==
    /\ FormShown
    /\ newRow.status # value
    /\ Spend("form")
    /\ newRow' = [newRow EXCEPT !.status = value]
    /\ last' = [op |-> "setNewRowStatus", arg |-> value]
    /\ UNCHANGED <<viewVars, refVars, mounted, detailVars, backendVars, flightVars,
                   editVars, newRowProductNames, addVars, uploadVars>>

\* formatDateText(new Date()) (680-686, 757), as its rank among the
\* date_text values of the backend.
Today == 3

\* The ids the backend gives to inserted rows, in the order it uses them.
NewRowIds == <<"u4", "u5", "u6">>

FreshRowId ==
    LET used == UNION {{r.id : r \in tables[tb]} : tb \in Tables}
        free == {i \in DOMAIN NewRowIds : NewRowIds[i] \notin used}
    IN  NewRowIds[CHOOSE i \in free : \A j \in free : i <= j]

\* JavaScript's  v || d  on a text of the form.
OrElse(v, d) == IF v = "" THEN d ELSE v

\* The object handleAddNewRow inserts (755-766), with the id the backend
\* gives it.
NewAssetRow(id, site, tab, form) ==
    [id |-> id, site_id |-> site, date_text |-> Today, category |-> tab,
     equipment_type |-> form.equipment_type,
     product_name |-> form.product_name,
     product_number |-> OrElse(form.product_number, NULL),
     serial |-> OrElse(form.serial, "NA"),
     tag |-> OrElse(form.tag, "NA"),
     status |-> form.status,
     remarks |-> OrElse(form.remarks, NULL)]

\* The validation of handleAddNewRow without its last test: a form without
\* a status passes.
AddRowProblemWithoutStatus ==
    CASE siteId = <<>> -> "Site ID is required. Please search for a site first."
      [] newRow.equipment_type = "" -> "Equipment Type is required."
      [] newRow.product_name = "" -> "Product Name is required."
      [] OTHER -> NULL

\* The message of the first validation that fails (731-746), NULL if none.
AddRowProblem ==
    CASE siteId = <<>> -> "Site ID is required. Please search for a site first."
      [] newRow.equipment_type = "" -> "Equipment Type is required."
      [] newRow.product_name = "" -> "Product Name is required."
      [] newRow.status = "" -> "Tag & Serial Status is required."
      [] OTHER -> NULL

handleAddNewRow ==
    /\ FormShown /\ ~newRowSaving /\ newAssetId = NULL
    /\ Spend("add")
    /\ IF AddRowProblem # NULL
       THEN /\ error' = AddRowProblem
            /\ UNCHANGED <<newRowSaving, adds>>
       ELSE /\ error' = NULL
            /\ newRowSaving' = TRUE
            /\ adds' = adds \cup
                  {[id |-> NextId, tab |-> activeTab, site |-> siteId,
                    row |-> newRow, stage |-> "insert"]}
    /\ last' = [op |-> "handleAddNewRow", arg |-> activeTab]
    /\ UNCHANGED <<siteId, activeTab, tabData, tabCounts, photos, loading,
                   hasSearched, refVars, mounted, detailVars, backendVars, flightVars,
                   editVars, newRow, newRowProductNames, newAssetId,
                   newAssetPhotos, uploadingNewPhoto, uploadVars>>

\* The backend inserts the row and notifies the listeners; the handler
\* keeps the id of the row and re-fetches the tab (749-778).
AddInsert(a) ==
    /\ a \in adds /\ a.stage = "insert"
    /\ \E i \in DOMAIN NewRowIds :
          NewRowIds[i] \notin UNION {{r.id : r \in tables[tb]} : tb \in Tables}
    /\ LET table == TAB_TABLE_MAP[a.tab]
           id == FreshRowId
       IN  /\ tables' = [tables EXCEPT ![table] =
                            @ \cup {NewAssetRow(id, a.site, a.tab, a.row)}]
           /\ notifs' = notifs \cup RowNotifs(table, a.site, id)
           /\ newAssetId' = SetState(id, newAssetId)
           /\ refreshes' = refreshes \cup
                 {[tab |-> a.tab, site |-> a.site, cause |-> id,
                   owner |-> <<"add", a.id>>, stage |-> "query", data |-> <<>>]}
    /\ adds' = (adds \ {a}) \cup {[a EXCEPT !.stage = "refresh"]}
    /\ last' = [op |-> "AddInsert", arg |-> a.tab]
    /\ UNCHANGED <<viewVars, refVars, mounted, detailVars, assetPhotos, channels, searches,
                   photoLoads, editVars, newRow, newRowProductNames,
                   newRowSaving, newAssetPhotos, uploadingNewPhoto, uploadVars,
                   budget>>

\* The insert answers with an error: banner, and the finally block
\* (768-771, 786-791).
AddError(a) ==
    /\ a \in adds /\ a.stage = "insert"
    /\ Spend("failure")
    /\ error' = SetState("Failed to add new row", error)
    /\ newRowSaving' = SetState(FALSE, newRowSaving)
    /\ adds' = adds \ {a}
    /\ last' = [op |-> "AddError", arg |-> a.tab]
    /\ UNCHANGED <<siteId, activeTab, tabData, tabCounts, photos, loading,
                   hasSearched, refVars, mounted, detailVars, backendVars, flightVars,
                   editVars, newRow, newRowProductNames, newAssetId,
                   newAssetPhotos, uploadingNewPhoto, uploadVars>>

(***************************************************************************)
(* handleNewAssetPhotoUpload (796-855).  The inputs are shown while a new  *)
(* asset id is held (1031) and are disabled during an upload (1056, 1080). *)
(***************************************************************************)
handleNewAssetPhotoUpload(photoType, file) ==
    /\ FormShown /\ newAssetId # NULL /\ uploadingNewPhoto = NULL
    /\ Spend("upload")
    /\ uploadingNewPhoto' = photoType
    /\ uploads' = uploads \cup
          {[id |-> NextId, handler |-> "new", tab |-> activeTab,
            rowId |-> newAssetId, photoType |-> photoType, file |-> file,
            path |-> StoragePath(siteId, TAB_TABLE_MAP[activeTab], newAssetId,
                                 photoType, file.name),
            assets |-> {}, stage |-> "store"]}
    /\ last' = [op |-> "handleNewAssetPhotoUpload", arg |-> <<newAssetId, photoType, file.name>>]
    /\ UNCHANGED <<viewVars, refVars, mounted, detailVars, backendVars, flightVars,
                   editVars, newRow, newRowProductNames, newRowSaving,
                   newAssetId, newAssetPhotos, adds, storage, uploadingPhoto>>

\* The finally block of handleNewAssetPhotoUpload (851-854).
NewAssetUploadReturn(u) ==
    /\ uploads' = uploads \ {u}
    /\ uploadingNewPhoto' = SetState(NULL, uploadingNewPhoto)

\* The metadata record is inserted (817-830) and the listeners of inserts
\* are notified; the URL of the photo is signed, or is '' when signing
\* fails, and the photo is added to those of the new asset (833-843).
NewAssetUploadInsert(u) ==
    /\ u \in uploads /\ u.stage = "insert" /\ u.handler = "new"
    /\ assetPhotos' = InsertedPhoto(assetPhotos, PhotoRecord(u))
    /\ notifs' = notifs \cup PhotoNotifs
    /\ \E bad \in SUBSET {PhotoRecord(u)} :
          newAssetPhotos' =
             SetState(newAssetPhotos \cup WithSignedUrls({PhotoRecord(u)}, bad),
                      newAssetPhotos)
    /\ NewAssetUploadReturn(u)
    /\ last' = [op |-> "NewAssetUploadInsert", arg |-> u.id]
    /\ UNCHANGED <<viewVars, refVars, mounted, detailVars, tables, channels, searches,
                   photoLoads, refreshes, editVars, newRow, newRowProductNames,
                   newRowSaving, newAssetId, adds, storage, uploadingPhoto,
                   budget>>

\* The bucket or the insert answers with an error: banner, and the finally
\* block (815, 830, 847-854).
NewAssetUploadError(u) ==
    /\ u \in uploads /\ u.stage \in {"store", "insert"} /\ u.handler = "new"
    /\ Spend("failure")
    /\ error' = SetState("Failed to upload photo", error)
    /\ NewAssetUploadReturn(u)
    /\ last' = [op |-> "NewAssetUploadError", arg |-> u.id]
    /\ UNCHANGED <<siteId, activeTab, tabData, tabCounts, photos, loading,
                   hasSearched, refVars, mounted, detailVars, backendVars, flightVars,
                   editVars, newRow, newRowProductNames, newRowSaving,
                   newAssetId, newAssetPhotos, adds, storage, uploadingPhoto>>

RowIds == {"u1", "u2", "u3"}

\* The values the selects can offer.
EquipmentTypeValues == {"", "ET1", "ET2"}

ProductNameValues == {"", "PN1", "PN2"}

Next ==
    \/ \E q \in Queries : handleSearch(q)
    \/ \E s \in searches, tab \in TabSet : FetchTable(s, tab)
    \/ \E s \in searches, tab \in TabSet : FetchTableError(s, tab)
    \/ \E s \in searches : SearchJoin(s)
    \/ \E p \in photoLoads : PhotoQuery(p)
    \/ \E p \in photoLoads : PhotoQueryError(p)
    \/ \E p \in photoLoads : PhotoSigned(p)
    \/ \E r \in refreshes : RefreshQuery(r)
    \/ \E r \in refreshes : RefreshQueryError(r)
    \/ \E r \in refreshes : RefreshApply(r)
    \/ \E n \in notifs : Deliver(n)
    \/ \E table \in Tables, id \in RowIds : ExternalChange(table, id)
    \/ Unmount

Init ==
    InitWith([search |-> MaxSearches, empty |-> MaxEmptySearches,
              external |-> MaxExternal, failure |-> MaxFailures,
              edit |-> 0, form |-> 0, save |-> 0, upload |-> 0, add |-> 0, detail |-> 0])

Spec == Init /\ [][Next]_vars

(***************************************************************************)
(* The view with one search and the editing of its rows.                   *)
(***************************************************************************)
NextEdit ==
    \/ \E q \in Queries : handleSearch(q)
    \/ \E s \in searches, tab \in TabSet : FetchTable(s, tab)
    \/ \E s \in searches : SearchJoin(s)
    \/ \E p \in photoLoads : PhotoQuery(p)
    \/ \E p \in photoLoads : PhotoSigned(p)
    \/ \E r \in refreshes : RefreshQuery(r)
    \/ \E r \in refreshes : RefreshApply(r)
    \/ \E n \in notifs : Deliver(n)
    \/ EquipmentTypesEffect
    \/ \E l \in lookups : LookupAnswer(l)
    \/ \E l \in lookups : LookupError(l)
    \/ \E rowId \in RowIds, field \in DOMAIN TypedValues :
          \E value \in TypedValues[field] : handleFieldChange(rowId, field, value)
    \/ \E rowId \in RowIds, value \in EquipmentTypeValues :
          handleEquipmentTypeChange(rowId, value)
    \/ \E rowId \in RowIds, value \in ProductNameValues :
          handleProductNameChange(rowId, value)
    \/ \E rowId \in RowIds : handleSaveRow(rowId)
    \/ \E sv \in saves : SaveUpdate(sv)
    \/ \E sv \in saves : SaveError(sv)
    \/ \E sv \in saves : SaveApply(sv)
    \/ Unmount

InitEdit ==
    InitWith([search |-> EditSearches, empty |-> MaxEmptySearches, external |-> 0,
              failure |-> MaxFailures, edit |-> MaxEdits, form |-> 0,
              save |-> MaxSaves, upload |-> 0, add |-> 0, detail |-> 0])

SpecEdit == InitEdit /\ [][NextEdit]_vars

(***************************************************************************)
(* The view with one search, the form of the new row and the equipment     *)
(* type of the rows.                                                       *)
(***************************************************************************)
NextForm ==
    \/ \E q \in Queries : handleSearch(q)
    \/ \E s \in searches, tab \in TabSet : FetchTable(s, tab)
    \/ \E s \in searches : SearchJoin(s)
    \/ \E p \in photoLoads : PhotoQuery(p)
    \/ \E p \in photoLoads : PhotoSigned(p)
    \/ EquipmentTypesEffect
    \/ \E l \in lookups : LookupAnswer(l)
    \/ \E l \in lookups : LookupError(l)
    \/ \E rowId \in RowIds, value \in EquipmentTypeValues :
          handleEquipmentTypeChange(rowId, value)
    \/ \E value \in EquipmentTypeValues : handleNewRowEquipmentTypeChange(value)
    \/ \E value \in ProductNameValues : handleNewRowProductNameChange(value)
    \/ \E value \in TypedProductNumbers : setNewRowProductNumber(value)
    \/ Unmount

InitForm ==
    InitWith([search |-> EditSearches, empty |-> MaxEmptySearches, external |-> 0,
              failure |-> MaxFailures, edit |-> FormRowEdits, form |-> MaxFormEdits,
              save |-> 0, upload |-> 0, add |-> 0, detail |-> 0])

SpecForm == InitForm /\ [][NextForm]_vars

(***************************************************************************)
(* The view with one search and the upload of photos.                      *)
(***************************************************************************)
NextPhoto ==
    \/ \E q \in Queries : handleSearch(q)
    \/ \E s \in searches, tab \in TabSet : FetchTable(s, tab)
    \/ \E s \in searches : SearchJoin(s)
    \/ \E p \in photoLoads : PhotoQuery(p)
    \/ \E p \in photoLoads : PhotoQueryError(p)
    \/ \E p \in photoLoads : PhotoSigned(p)
    \/ \E n \in notifs : Deliver(n)
    \/ \E rowId \in RowIds, photoType \in PhotoTypes, file \in UploadFiles :
          handlePhotoUpload(rowId, photoType, file)
    \/ \E u \in uploads : UploadStore(u)
    \/ \E u \in uploads : UploadInsert(u)
    \/ \E u \in uploads : UploadError(u)

InitPhoto ==
    InitWith([search |-> EditSearches, empty |-> 0, external |-> 0,
              failure |-> MaxFailures, edit |-> 0, form |-> 0, save |-> 0,
              upload |-> MaxUploads, add |-> 0, detail |-> 0])

SpecPhoto == InitPhoto /\ [][NextPhoto]_vars

(***************************************************************************)
(* Properties of the search and of the live refresh.                       *)
(***************************************************************************)
AssetChannels == {c \in channels : c.name = "asset-changes"}

PhotoChannels == {c \in channels : c.name = "photo-changes"}

\* The step applies the re-fetch r, which a change listener started.
AppliesRefresh(r) ==
    /\ r \in refreshes /\ r.stage = "apply" /\ r.owner[1] = "listener"
    /\ r \notin refreshes'

\* C1: a change notification that concerns a site other than the current
\* siteId leaves tabData and tabCounts unchanged, also when it comes through
\* a subscription that an earlier search opened.  (Violated: the re-fetch a
\* listener started is applied whatever siteId is by then.)
C1_OtherSiteNotificationChangesNothing ==
    [][\A r \in refreshes :
          (AppliesRefresh(r) /\ r.site # siteId)
              => (tabData' = tabData /\ tabCounts' = tabCounts)]_vars

\* The rows of the table of `tab` for `site`, as the view holds them, in
\* every date-descending order the backend may give them.
ExpectedTab(tab, site) ==
    {DecorateAll(data) : data \in OrderDesc(SelectSite(TAB_TABLE_MAP[tab], site))}

\* The step is the successful return of the search s.
SearchSucceeds(s) ==
    /\ s \in searches /\ s \notin searches'
    /\ \A x \in searches' : x.id # s.id
    /\ s.stage = "photos" \/ DOMAIN s.results = TabSet

\* C2: when a search for S completes successfully, each of the five tabs
\* holds exactly the backend rows of its table whose site_id is S, in
\* date-descending order, and each count is the number of those rows.
\* Stated for searches under which the backend rows of S did not change.
\* (Violated: a re-fetch for another site, or an overlapping search, writes
\* a tab between the search's own update and its return.)
C2_SearchFillsEveryTab ==
    [][\A s \in searches :
          (/\ SearchSucceeds(s) /\ mounted
           /\ \A tab \in TabSet : s.results[tab] \in
                  OrderDesc(SelectSite(TAB_TABLE_MAP[tab], s.query)))
              => \A tab \in TabSet :
                    /\ tab \in DOMAIN tabData' /\ tab \in DOMAIN tabCounts'
                    /\ tabData'[tab] \in ExpectedTab(tab, s.query)
                    /\ tabCounts'[tab] = Cardinality(SelectSite(TAB_TABLE_MAP[tab], s.query))]_vars

IsBlank(q) == \A i \in DOMAIN q : q[i] = " "

\* C3: a search with an empty or whitespace-only query empties tabData,
\* tabCounts and photos, resets hasSearched and siteId, and issues no
\* backend request (nothing joins the requests in flight, the backend is
\* left as it is).
C3_EmptySearchClearsWithoutRequest ==
    [][(last'.op = "handleSearch" /\ IsBlank(last'.arg))
          => /\ tabData' = EmptyMap /\ tabCounts' = EmptyMap /\ photos' = EmptyMap
             /\ hasSearched' = FALSE /\ siteId' = <<>>
             /\ UNCHANGED <<searches, photoLoads, refreshes, lookups, saves,
                          uploads, backendVars, storage>>]_vars

\* A whitespace-only search has just cleared a view that a completed search
\* had filled (its channels are still open).
C3_Witness ==
    /\ last.op = "handleSearch" /\ last.arg = <<" ">>
    /\ channels # {} /\ mounted /\ tabData = EmptyMap

\* C7: at most one asset-change channel and at most one photo-insert channel
\* opened by the view are open at any time.
C7_AtMostOneChannelOfEachKind ==
    Cardinality(AssetChannels) <= 1 /\ Cardinality(PhotoChannels) <= 1

\* Two searches have run to their successful end and one pair of channels is open.
C7_Witness ==
    /\ mounted /\ searches = {} /\ budget.search = 0
    /\ budget.failure = MaxFailures
    /\ Cardinality(AssetChannels) = 1 /\ Cardinality(PhotoChannels) = 1

\* C8: after the view is torn down no channel opened by it remains open,
\* also when a search was in flight at teardown.  (Violated: the search
\* that returns after the unmount opens its channels all the same.)
C8_NoChannelAfterTeardown == ~mounted => channels = {}

\* C9: once a search has completed and no search is in flight, the open
\* asset-change channel has one listener per table, each filtered on the
\* current siteId, and one photo-insert channel is open.  (Violated: a later
\* search that fails leaves siteId on its query and the channels on the
\* site of the search before.)
C9_ChannelsFollowSiteId ==
    (mounted /\ hasSearched /\ searches = {} /\ channelRef # 0)
        => /\ Cardinality(PhotoChannels) = 1
           /\ \E c \in AssetChannels :
                 /\ AssetChannels = {c}
                 /\ {l.table : l \in c.listeners} = Tables
                 /\ \A l \in c.listeners : l.filter = siteId


\* The editable fields of a row of the view whose draft differs from what
\* the row was loaded with.
EditedFields(row) == {f \in Fields : row[DraftOf[f]] # OrEmpty(row[f])}

\* C4: for any row and any subset of its editable fields that the user
\* edited, after a successful save the backend row holds the new values for
\* exactly the edited fields and, for every field that was not edited, the
\* value it held before the save.
C4_SaveWritesExactlyEditedFields ==
    [][\A sv \in saves :
          (/\ sv.stage = "update" /\ sv \notin saves'
           /\ last'.op = "SaveUpdate" /\ last'.arg = <<sv.tab, sv.row.id>>)
          => \A old \in tables[TAB_TABLE_MAP[sv.tab]] :
                old.id = sv.row.id =>
                   \E new \in tables'[TAB_TABLE_MAP[sv.tab]] :
                      /\ new.id = old.id
                      /\ \A f \in Fields :
                            new[f] = IF f \in EditedFields(sv.row)
                                     THEN sv.row[DraftOf[f]] ELSE old[f]]_vars

\* C5: when the equipment type of a row (or of the form of the new row) is
\* changed, the product-name and product-number drafts are cleared in the
\* step that sets the equipment type, and no lookup has been answered in
\* that step: the request the change started is still in flight.
C5_TypeChangeClearsDependents ==
    [][/\ last'.op = "handleEquipmentTypeChange" =>
             /\ lookups \subseteq lookups'
             /\ \A i \in DOMAIN tabData'[last'.arg[1]] :
                   LET row == tabData'[last'.arg[1]][i] IN
                   row.id = last'.arg[2] =>
                      /\ row._equipment_type = last'.arg[3]
                      /\ row._product_name = ""
                      /\ row._product_number = ""
       /\ last'.op = "handleNewRowEquipmentTypeChange" =>
             /\ lookups \subseteq lookups'
             /\ newRow'.equipment_type = last'.arg
             /\ newRow'.product_name = ""
             /\ newRow'.product_number = ""]_vars

\* A row with a product name and number has just got another equipment
\* type, and the request for the product names of that type is in flight.
C5_Witness ==
    /\ last.op = "handleEquipmentTypeChange" /\ last.arg[3] = "ET2"
    /\ \E l \in lookups : l.view = "v_product_names" /\ l.caller = "row"
    /\ \E i \in DOMAIN tabData[last.arg[1]] :
          LET row == tabData[last.arg[1]][i] IN
          /\ row.id = last.arg[2]
          /\ row.product_name = "PN1" /\ row.product_number = "N1"
          /\ row._product_name = "" /\ row._product_number = ""

\* C10: after a successful save of a row, the row's canonical fields equal
\* the draft values that were submitted, its edited flag is false and its
\* saving flag is false (so the save button, enabled by edited and not
\* saving, is disabled).
C10_SavePromotesDraft ==
    [][\A sv \in saves :
          (/\ sv.stage = "done" /\ sv \notin saves'
           /\ last'.op = "SaveApply" /\ last'.arg = <<sv.tab, sv.row.id>>
           /\ sv.tab \in DOMAIN tabData')
          => \A i \in DOMAIN tabData'[sv.tab] :
                LET row == tabData'[sv.tab][i] IN
                row.id = sv.row.id =>
                   /\ \A f \in Fields : row[f] = sv.row[DraftOf[f]]
                   /\ ~row._editing
                   /\ ~row._saving]_vars

\* The save of a row whose serial was edited has just been applied.
C10_Witness ==
    /\ last.op = "SaveApply" /\ mounted
    /\ \E i \in DOMAIN tabData[last.arg[1]] :
          LET row == tabData[last.arg[1]][i] IN
          /\ row.id = last.arg[2]
          /\ row.serial = "S9" /\ row._serial = "S9"
          /\ ~row._editing /\ ~row._saving


\* The metadata records of an asset and photo type.
PhotosOf(rows, table, assetId, photoType) ==
    {ph \in rows : /\ ph.asset_table = table /\ ph.asset_id = assetId
                   /\ ph.photo_type = photoType}

\* The metadata records of the asset and photo type of the upload u.
PhotosOfUpload(rows, u) ==
    PhotosOf(rows, TAB_TABLE_MAP[u.tab], u.rowId, u.photoType)

DraftState(row) == [k \in DraftNames \cup {"_editing"} |-> row[k]]

\* The steps that belong to an edit or a save of the row rowId of tab: the
\* handlers called for it, the answers to their requests, and the re-fetch
\* that the notification of its save starts.
StepOnRow(tab, rowId) ==
    \/ /\ last'.op \in {"handleFieldChange", "handleEquipmentTypeChange",
                        "handleProductNameChange", "handleSaveRow",
                        "SaveUpdate", "SaveError", "SaveApply"}
       /\ last'.arg[1] = tab /\ last'.arg[2] = rowId
    \/ /\ last'.op = "RefreshApply"
       /\ \E r \in refreshes \ refreshes' :
             r.stage = "apply" /\ r.tab = tab /\ r.cause = rowId

\* C11: edits to different rows are independent: the unsaved drafts and the
\* edited flag of a row B are unchanged by every step of an edit or save of
\* a different row A of the same tab.
C11_OtherRowsKeepDrafts ==
    [][\A tab \in DOMAIN tabData : \A a \in RowIds :
          (mounted' /\ StepOnRow(tab, a))
          => \A rowB \in RowsOf(tabData, tab) :
                rowB.id # a =>
                   \E rowB2 \in RowsOf(tabData', tab) :
                      rowB2.id = rowB.id /\ DraftState(rowB2) = DraftState(rowB)]_vars

(***************************************************************************)
(* The view with one search, the save of a row and another client that     *)
(* changes a row of the same table: the answers of the update (554-568),   *)
(* the notifications (408-415) and the re-fetches (444-475) interleave.    *)
(***************************************************************************)
NextRace ==
    \/ \E q \in Queries : handleSearch(q)
    \/ \E s \in searches, tab \in TabSet : FetchTable(s, tab)
    \/ \E s \in searches : SearchJoin(s)
    \/ \E p \in photoLoads : PhotoQuery(p)
    \/ \E p \in photoLoads : PhotoSigned(p)
    \/ \E r \in refreshes : RefreshQuery(r)
    \/ \E r \in refreshes : RefreshApply(r)
    \/ \E n \in notifs : Deliver(n)
    \/ \E table \in Tables, id \in RowIds : ExternalChange(table, id)
    \/ \E rowId \in RowIds, field \in DOMAIN TypedValues :
          \E value \in TypedValues[field] : handleFieldChange(rowId, field, value)
    \/ \E rowId \in RowIds : handleSaveRow(rowId)
    \/ \E sv \in saves : SaveUpdate(sv)
    \/ \E sv \in saves : SaveApply(sv)

SpecRace ==
    /\ InitWith([search |-> EditSearches, empty |-> 0, external |-> MaxExternal,
                 failure |-> 0, edit |-> RaceEdits, form |-> 0,
                 save |-> MaxSaves, upload |-> 0, add |-> 0, detail |-> 0])
    /\ [][NextRace]_vars

\* Nothing of the synchronisation is under way: no notification waits for
\* its delivery, no re-fetch and no search is in flight.
Quiescent == notifs = {} /\ refreshes = {} /\ searches = {}

\* The row of the view, where it is shown, has the canonical values of the
\* backend row of the same id.
ShowsBackendRow(tab, rowId) ==
    \A r \in RowsOf(tabData, tab) :
       r.id = rowId =>
          \A b \in tables[TAB_TABLE_MAP[tab]] :
             b.id = rowId => \A f \in Fields : r[f] = b[f]

\* The backend row rowId holds what a save of this view wrote: a value the
\* user typed (the other client writes "SX", the tables start without it).
HoldsSavedValues(tab, rowId) ==
    \E b \in tables[TAB_TABLE_MAP[tab]] :
       /\ b.id = rowId
       /\ b.serial \in TypedValues._serial \/ b.tag \in TypedValues._tag

\* C12: after a successful save of a row (its update is in the backend and
\* the handler has returned), once every pending change notification has
\* been delivered and every in-flight re-fetch has completed, the canonical
\* values the view shows for the row equal the backend row.
C12_SavedRowConverges ==
    (mounted /\ saves = {} /\ Quiescent)
       => \A tab \in TabSet : \A rowId \in RowIds :
             HoldsSavedValues(tab, rowId) => ShowsBackendRow(tab, rowId)

\* C13: a search updates the combined tab state only after all five table
\* fetches have resolved: the step that follows the fifth answer replaces
\* the data and the count of every one of the five tabs by the search's
\* results, and the call of the handler, each answer and a failed fetch
\* leave the data and counts of all tabs as they are.
C13_SearchUpdatesAllTabsOrNone ==
    [][/\ (\/ last'.op \in {"FetchTable", "FetchTableError"}
           \/ last'.op = "handleSearch" /\ searches' # searches)
          => tabData' = tabData /\ tabCounts' = tabCounts
       /\ (last'.op = "SearchJoin" /\ mounted)
          => \E s \in searches \ searches' :
                /\ s.stage = "fetch" /\ DOMAIN s.results = TabSet
                /\ DOMAIN tabData' = TabSet /\ DOMAIN tabCounts' = TabSet
                /\ \A tab \in TabSet :
                      /\ tabData'[tab] = DecorateAll(s.results[tab])
                      /\ tabCounts'[tab] = Len(s.results[tab])]_vars

\* The second search has replaced all tabs, one of them by no rows, after a
\* fetch of the first search failed.
C13_Witness ==
    /\ last.op = "SearchJoin" /\ mounted
    /\ budget.search = 0 /\ budget.failure = 0
    /\ DOMAIN tabData = TabSet
    /\ tabData["Enclosure"] # <<>> /\ tabData["RAN-Active"] = <<>>

(***************************************************************************)
(* The view with one search, the form of the new row, the insert of the    *)
(* row and the upload of a photo of the new asset.                         *)
(***************************************************************************)
NextAdd ==
    \/ \E q \in Queries : handleSearch(q)
    \/ \E s \in searches, tab \in TabSet : FetchTable(s, tab)
    \/ \E s \in searches : SearchJoin(s)
    \/ \E p \in photoLoads : PhotoQuery(p)
    \/ \E p \in photoLoads : PhotoSigned(p)
    \/ \E r \in refreshes : RefreshQuery(r)
    \/ \E r \in refreshes : RefreshApply(r)
    \/ \E n \in notifs : Deliver(n)
    \/ EquipmentTypesEffect
    \/ \E l \in lookups : LookupAnswer(l)
    \/ \E value \in EquipmentTypeValues : handleNewRowEquipmentTypeChange(value)
    \/ \E value \in ProductNameValues : handleNewRowProductNameChange(value)
    \/ \E value \in TagStatuses : setNewRowStatus(value)
    \/ handleAddNewRow
    \/ \E a \in adds : AddInsert(a)
    \/ \E a \in adds : AddError(a)
    \/ \E photoType \in PhotoTypes, file \in UploadFiles :
          handleNewAssetPhotoUpload(photoType, file)
    \/ \E u \in uploads : UploadStore(u)
    \/ \E u \in uploads : NewAssetUploadInsert(u)
    \/ \E u \in uploads : NewAssetUploadError(u)

SpecAdd ==
    /\ InitWith([search |-> EditSearches, empty |-> 0, external |-> 0,
                 failure |-> MaxFailures, edit |-> 0, form |-> MaxFormEdits,
                 save |-> 0, upload |-> AddUploads, add |-> MaxAdds, detail |-> 0])
    /\ [][NextAdd]_vars

\* C14: on a photo-insert notification the photo map is re-fetched for all
\* assets currently loaded in tab data, including rows that were added, or
\* arrived through a tab refresh, after the search that opened the
\* subscription.
C14_PhotoListenerLoadsCurrentAssets ==
    [][(last'.op = "Deliver" /\ last'.arg = "photo-changes" /\ mounted)
          => IF AllAssets(tabData) = {}
             THEN photos' = EmptyMap
             ELSE \E p \in photoLoads' \ photoLoads :
                     p.assets = AllAssets(tabData)]_vars

\* The value of a key of a JavaScript object, with a mark for a key that
\* is not there.
Entry(map, key) == IF key \in DOMAIN map THEN <<map[key]>> ELSE <<>>

\* C15: a table-change notification for one category re-fetches and
\* replaces only that category's rows and count: its delivery starts a
\* re-fetch of that tab and of no other, the answer of the re-fetch replaces
\* the rows and the count of that tab by the rows it read, and all of these
\* steps leave the rows and counts of the other four tabs and the photo map
\* unchanged.
C15_RefreshTouchesOneTab ==
    [][/\ (last'.op = "Deliver" /\ last'.arg = "asset-changes")
          => /\ tabData' = tabData /\ tabCounts' = tabCounts /\ photos' = photos
             /\ photoLoads' = photoLoads
             /\ \E n \in notifs \ notifs' :
                   /\ \E r \in refreshes' : r.tab = n.tab /\ r.stage = "query"
                   /\ \A r \in refreshes' \ refreshes : r.tab = n.tab
       /\ (last'.op \in {"RefreshQuery", "RefreshQueryError"})
          => tabData' = tabData /\ tabCounts' = tabCounts /\ photos' = photos
       /\ (last'.op = "RefreshApply")
          => \E r \in refreshes \ refreshes' :
                /\ photos' = photos
                /\ \A tab \in TabSet \ {r.tab} :
                      /\ Entry(tabData', tab) = Entry(tabData, tab)
                      /\ Entry(tabCounts', tab) = Entry(tabCounts, tab)
                /\ mounted => /\ Entry(tabData', r.tab) = <<DecorateAll(r.data)>>
                              /\ Entry(tabCounts', r.tab) = <<Len(r.data)>>]_vars

\* A re-fetch has replaced the rows of the Enclosure tab by rows another
\* client changed, while the RAN-Active tab holds its rows.
C15_Witness ==
    /\ last.op = "RefreshApply" /\ mounted
    /\ "RAN-Active" \in DOMAIN tabData /\ tabData["RAN-Active"] # <<>>
    /\ "Enclosure" \in DOMAIN tabData
    /\ \E i \in DOMAIN tabData["Enclosure"] : tabData["Enclosure"][i].serial = "SX"

(***************************************************************************)
(* The two upload handlers of the view: a search, the insert of a new row  *)
(* through the form, and uploads for a row of the table and for the new    *)
(* asset.  Notifications stay undelivered here.                            *)
(***************************************************************************)
NextUpload ==
    \/ \E q \in Queries : handleSearch(q)
    \/ \E s \in searches, tab \in TabSet : FetchTable(s, tab)
    \/ \E s \in searches : SearchJoin(s)
    \/ \E p \in photoLoads : PhotoQuery(p)
    \/ \E p \in photoLoads : PhotoSigned(p)
    \/ EquipmentTypesEffect
    \/ \E l \in lookups : LookupAnswer(l)
    \/ \E value \in EquipmentTypeValues : handleNewRowEquipmentTypeChange(value)
    \/ \E value \in ProductNameValues : handleNewRowProductNameChange(value)
    \/ \E value \in TagStatuses : setNewRowStatus(value)
    \/ handleAddNewRow
    \/ \E a \in adds : AddInsert(a)
    \/ \E rowId \in RowIds, photoType \in PhotoTypes, file \in UploadFiles :
          handlePhotoUpload(rowId, photoType, file)
    \/ \E photoType \in PhotoTypes, file \in UploadFiles :
          handleNewAssetPhotoUpload(photoType, file)
    \/ \E u \in uploads : UploadStore(u)
    \/ \E u \in uploads : UploadInsert(u)
    \/ \E u \in uploads : UploadError(u)
    \/ \E u \in uploads : NewAssetUploadInsert(u)
    \/ \E u \in uploads : NewAssetUploadError(u)

SpecUpload ==
    /\ InitWith([search |-> EditSearches, empty |-> 0, external |-> 0,
                 failure |-> MaxFailures, edit |-> 0, form |-> MaxFormEdits,
                 save |-> 0, upload |-> AddUploads, add |-> MaxAdds, detail |-> 0])
    /\ [][NextUpload]_vars

\* C16: in both upload handlers the path is site/table/assetId/photoType/
\* filename; the asset_photos table changes only by the insert of one record
\* for an upload whose file the bucket has stored under that path, and the
\* record references exactly that path and the table, asset and type it
\* is made of; an upload that failed leaves asset_photos unchanged.
C16_RecordFollowsStoredUpload ==
    [][/\ (last'.op \in {"handlePhotoUpload", "handleNewAssetPhotoUpload"})
          => \E u \in uploads' \ uploads :
                /\ u.stage = "store"
                /\ u.path = <<siteId, TAB_TABLE_MAP[activeTab], last'.arg[1],
                              last'.arg[2], last'.arg[3]>>
                /\ assetPhotos' = assetPhotos
       /\ (assetPhotos' # assetPhotos)
          => \E u \in uploads : \E rec \in assetPhotos' :
                /\ u.stage = "insert"
                /\ u.path \in DOMAIN storage /\ storage[u.path] = u.file.content
                /\ storage' = storage
                /\ rec \notin assetPhotos /\ assetPhotos' = assetPhotos \cup {rec}
                /\ rec.storage_path = u.path
                /\ rec.storage_path = <<u.path[1], rec.asset_table, rec.asset_id,
                                        rec.photo_type, u.file.name>>
       /\ (last'.op \in {"UploadError", "NewAssetUploadError"})
          => /\ assetPhotos' = assetPhotos
             /\ \A u \in uploads : u.id = last'.arg => u \notin uploads'
       /\ (last'.op = "UploadStore") => assetPhotos' = assetPhotos]_vars

\* The photo of the new asset u4 was stored and its record, which names the
\* path of the file, was inserted.
C16_Witness ==
    /\ last.op = "NewAssetUploadInsert"
    /\ \E ph \in assetPhotos :
          /\ ph.asset_id = "u4"
          /\ ph.storage_path \in DOMAIN storage
          /\ ph.storage_path[3] = "u4"

(***************************************************************************)
(* The asset-detail drawer (AssetDetail, 1580-2027).  The site view        *)
(* renders it for the asset that is selected (1466-1472); assetDetail.inst *)
(* tells the instances apart, and a request that is answered after its     *)
(* instance is gone sets no state.  An effect runs with the render its     *)
(* dependency changed in, before the next event is handled.                *)
(***************************************************************************)
\* The categories the v_categories view lists (1644-1654).
Categories == TabSet

\* A request of an instance of the drawer.
DetailCall(inst, kind, assetId, category, equipmentType) ==
    [inst |-> inst, kind |-> kind, asset_id |-> assetId, category |-> category,
     equipment_type |-> equipmentType]

\* No file is chosen: the null of serialPhoto and tagPhoto (1608-1609).
NoFile == [name |-> NULL, content |-> NULL]

\* The state AssetDetail starts with for the asset (1581-1612).
NewDrawer(asset, inst) ==
    [open |-> TRUE, inst |-> inst, asset |-> asset,
     formData |-> [serial_number |-> OrEmpty(asset.serial_number),
                   tag_number |-> OrEmpty(asset.tag_number),
                   status |-> OrEmpty(asset.status),
                   remarks |-> OrEmpty(asset.remarks)],
     selectedCategory |-> OrEmpty(asset.category),
     selectedEquipmentType |-> "", selectedProductName |-> "",
     selectedTagStatus |-> "",
     categories |-> {}, equipmentTypes |-> {}, productNames |-> {},
     tagStatuses |-> {},
     loadingCategories |-> FALSE, loadingEquipmentTypes |-> FALSE,
     loadingProducts |-> FALSE, loadingStatuses |-> FALSE,
     error |-> NULL, serialPhoto |-> NoFile, tagPhoto |-> NoFile,
     existingPhotos |-> {}, uploading |-> FALSE, saving |-> FALSE]

\* The synchronous part of loadEquipmentTypes (1666-1671).
LoadingEquipmentTypes(d) ==
    [d EXCEPT !.loadingEquipmentTypes = TRUE, !.error = NULL,
              !.selectedEquipmentType = "", !.selectedProductName = "",
              !.productNames = {}]

\* The synchronous part of loadProductNames (1694-1697).
LoadingProducts(d) ==
    [d EXCEPT !.loadingProducts = TRUE, !.error = NULL,
              !.selectedProductName = ""]

\* The effect on selectedEquipmentType (1633-1641), without its request.
EquipmentTypeEffect(d) ==
    IF d.selectedCategory # "" /\ d.selectedEquipmentType # ""
    THEN LoadingProducts(d)
    ELSE [d EXCEPT !.productNames = {}, !.selectedProductName = ""]

\* The effect on selectedCategory (1622-1631), without its request, and
\* the effect on selectedEquipmentType where it clears a selected type.
CategoryEffect(d) ==
    LET e == IF d.selectedCategory # ""
             THEN LoadingEquipmentTypes(d)
             ELSE [d EXCEPT !.equipmentTypes = {}, !.selectedEquipmentType = "",
                            !.selectedProductName = ""]
    IN  IF d.selectedEquipmentType # "" THEN EquipmentTypeEffect(e) ELSE e

\* The requests the effect on selectedCategory issues.
CategoryCalls(d) ==
    IF d.selectedCategory # ""
    THEN {DetailCall(d.inst, "v_equipment_types", d.asset.id, d.selectedCategory, "")}
    ELSE {}

\* An asset card of the site view is clicked (1437): the drawer is mounted
\* and its three effects run (1615-1641).
OpenDrawer(asset) ==
    /\ ~assetDetail.open
    /\ asset \in assetsTable
    /\ Spend("detail")
    /\ LET inst == assetDetail.inst + 1
           d == [NewDrawer(asset, inst) EXCEPT !.loadingCategories = TRUE,
                                               !.loadingStatuses = TRUE]
       IN  /\ assetDetail' = EquipmentTypeEffect(CategoryEffect(d))
           /\ detailCalls' = detailCalls
                 \cup {DetailCall(inst, "v_categories", asset.id, "", ""),
                       DetailCall(inst, "v_tag_status", asset.id, "", ""),
                       DetailCall(inst, "asset_photos", asset.id, "", "")}
                 \cup CategoryCalls(d)
    /\ last' = [op |-> "OpenDrawer", arg |-> asset.id]
    /\ UNCHANGED <<viewVars, refVars, mounted, router, statusVars, backendVars, flightVars,
                   editVars, formVars, uploadVars, assetsTable>>

\* onClose (1469): the Cancel button, the close button or the overlay.
CloseDrawer ==
    /\ assetDetail.open
    /\ Spend("detail")
    /\ assetDetail' = [open |-> FALSE, inst |-> assetDetail.inst]
    /\ last' = [op |-> "CloseDrawer", arg |-> 0]
    /\ UNCHANGED <<viewVars, refVars, mounted, router, statusVars, backendVars, flightVars,
                   editVars, formVars, uploadVars, detailCalls, assetsTable>>

\* The category select (1862-1876) and the effect on selectedCategory.
setSelectedCategory(value) ==
    /\ assetDetail.open /\ ~assetDetail.loadingCategories
    /\ value \in ({""} \cup assetDetail.categories) \ {assetDetail.selectedCategory}
    /\ Spend("detail")
    /\ LET d == [assetDetail EXCEPT !.selectedCategory = value] IN
       /\ assetDetail' = CategoryEffect(d)
       /\ detailCalls' = detailCalls \cup CategoryCalls(d)
    /\ last' = [op |-> "setSelectedCategory", arg |-> value]
    /\ UNCHANGED <<viewVars, refVars, mounted, router, statusVars, backendVars, flightVars,
                   editVars, formVars, uploadVars, assetsTable>>

\* The equipment-type select (1880-1896) and the effect on
\* selectedEquipmentType.
setSelectedEquipmentType(value) ==
    /\ assetDetail.open
    /\ ~assetDetail.loadingEquipmentTypes /\ assetDetail.selectedCategory # ""
    /\ value \in ({""} \cup assetDetail.equipmentTypes)
                    \ {assetDetail.selectedEquipmentType}
    /\ Spend("detail")
    /\ LET d == [assetDetail EXCEPT !.selectedEquipmentType = value] IN
       /\ assetDetail' = EquipmentTypeEffect(d)
       /\ detailCalls' = detailCalls \cup
             (IF value # ""
              THEN {DetailCall(d.inst, "v_product_names", d.asset.id,
                               d.selectedCategory, value)}
              ELSE {})
    /\ last' = [op |-> "setSelectedEquipmentType", arg |-> value]
    /\ UNCHANGED <<viewVars, refVars, mounted, router, statusVars, backendVars, flightVars,
                   editVars, formVars, uploadVars, assetsTable>>

\* The product-name select (1900-1916).
setSelectedProductName(value) ==
    /\ assetDetail.open
    /\ ~assetDetail.loadingProducts /\ assetDetail.selectedEquipmentType # ""
    /\ value \in ({""} \cup assetDetail.productNames)
                    \ {assetDetail.selectedProductName}
    /\ Spend("detail")
    /\ assetDetail' = [assetDetail EXCEPT !.selectedProductName = value]
    /\ last' = [op |-> "setSelectedProductName", arg |-> value]
    /\ UNCHANGED <<viewVars, refVars, mounted, router, statusVars, backendVars, flightVars,
                   editVars, formVars, uploadVars, detailCalls, assetsTable>>

\* The instance that issued the request c is still mounted.
Alive(c) == assetDetail.open /\ assetDetail.inst = c.inst

\* The drawer after the answer `result` to the lookup c (1650-1661,
\* 1674-1690, 1700-1717, 1722-1738, 1742-1750).
Answered(d, c, result) ==
    CASE c.kind = "v_categories" ->
            [d EXCEPT !.categories = result, !.loadingCategories = FALSE]
      [] c.kind = "v_tag_status" ->
            [d EXCEPT !.tagStatuses = result, !.loadingStatuses = FALSE]
      [] c.kind = "asset_photos" ->
            [d EXCEPT !.existingPhotos = result]
      [] c.kind = "v_equipment_types" ->
            [d EXCEPT !.equipmentTypes = result, !.loadingEquipmentTypes = FALSE]
      [] c.kind = "v_product_names" ->
            [d EXCEPT !.productNames = result, !.loadingProducts = FALSE]

\* The drawer after the lookup c failed: the message and the finally block;
\* a failure to load the photos is logged only (1751-1753).
Failed(d, c) ==
    CASE c.kind = "v_categories" ->
            [d EXCEPT !.error = "Failed to load categories",
                      !.loadingCategories = FALSE]
      [] c.kind = "v_tag_status" ->
            [d EXCEPT !.error = "Failed to load tag statuses",
                      !.loadingStatuses = FALSE]
      [] c.kind = "asset_photos" -> d
      [] c.kind = "v_equipment_types" ->
            [d EXCEPT !.error = "Failed to load equipment types",
                      !.loadingEquipmentTypes = FALSE]
      [] c.kind = "v_product_names" ->
            [d EXCEPT !.error = "Failed to load product names",
                      !.loadingProducts = FALSE]

\* What the backend answers to the lookup c.
DetailResult(c) ==
    CASE c.kind = "v_categories" -> Categories
      [] c.kind = "v_tag_status" -> TagStatuses
      [] c.kind = "asset_photos" -> {ph \in assetPhotos : ph.asset_id = c.asset_id}
      [] c.kind = "v_equipment_types" -> EquipmentTypesOf(c.category)
      [] c.kind = "v_product_names" -> ProductNamesOf(c.category, c.equipment_type)

Lookups == {"v_categories", "v_tag_status", "asset_photos",
            "v_equipment_types", "v_product_names"}

DetailAnswer(c) ==
    /\ c \in detailCalls /\ c.kind \in Lookups
    /\ detailCalls' = detailCalls \ {c}
    /\ assetDetail' = IF Alive(c) THEN Answered(assetDetail, c, DetailResult(c))
                      ELSE assetDetail
    /\ last' = [op |-> "DetailAnswer", arg |-> c.kind]
    /\ UNCHANGED <<viewVars, refVars, mounted, router, statusVars, backendVars, flightVars,
                   editVars, formVars, uploadVars, assetsTable, budget>>

DetailError(c) ==
    /\ c \in detailCalls /\ c.kind \in Lookups
    /\ Spend("failure")
    /\ detailCalls' = detailCalls \ {c}
    /\ assetDetail' = IF Alive(c) THEN Failed(assetDetail, c) ELSE assetDetail
    /\ last' = [op |-> "DetailError", arg |-> c.kind]
    /\ UNCHANGED <<viewVars, refVars, mounted, router, statusVars, backendVars, flightVars,
                   editVars, formVars, uploadVars, assetsTable>>

(***************************************************************************)
(* handleSubmit and uploadPhoto of the drawer (1766-1835).                 *)
(***************************************************************************)
\* file.name.split('.').pop() (1775) for the files the user can choose.
FileExt(name) ==
    CASE name = "a.jpg" -> "jpg"
      [] name = "b.jpg" -> "jpg"

\* The storage path of uploadPhoto (1776): site/asset/photoType.ext
DetailPath(asset, photoType, file) ==
    <<asset.site_id, asset.id, photoType, FileExt(file.name)>>

\* The file input of a photo type (1766-1775, 1974-1979, 1990-1995).
handleFileChange(photoType, file) ==
    /\ assetDetail.open
    /\ Spend("detail")
    /\ assetDetail' =
          IF photoType = "serial" THEN [assetDetail EXCEPT !.serialPhoto = file]
          ELSE [assetDetail EXCEPT !.tagPhoto = file]
    /\ last' = [op |-> "handleFileChange", arg |-> <<photoType, file.name>>]
    /\ UNCHANGED <<viewVars, refVars, mounted, router, statusVars, backendVars, flightVars,
                   editVars, formVars, uploadVars, detailCalls, assetsTable>>

\* The Save button (2001-2003): handleSubmit up to its first await (1805-1820).
handleSubmit ==
    /\ assetDetail.open /\ ~assetDetail.saving /\ ~assetDetail.uploading
    /\ Spend("detail")
    /\ assetDetail' = [assetDetail EXCEPT !.saving = TRUE]
    /\ detailCalls' = detailCalls \cup
          {[inst |-> assetDetail.inst, kind |-> "submit", stage |-> "update",
            photoType |-> "-", asset |-> assetDetail.asset,
            formData |-> assetDetail.formData,
            selectedTagStatus |-> assetDetail.selectedTagStatus,
            serialPhoto |-> assetDetail.serialPhoto,
            tagPhoto |-> assetDetail.tagPhoto]}
    /\ last' = [op |-> "handleSubmit", arg |-> assetDetail.asset.id]
    /\ UNCHANGED <<viewVars, refVars, mounted, router, statusVars, backendVars, flightVars,
                   editVars, formVars, uploadVars, assetsTable>>

\* The file handleSubmit uploads for a photo type.
FileOf(c, photoType) == IF photoType = "serial" THEN c.serialPhoto ELSE c.tagPhoto

\* The photo types handleSubmit still has to upload after the one in hand
\* (1825-1830).
PhotosLeft(c) ==
    {t \in PhotoTypes :
        /\ FileOf(c, t) # NoFile
        /\ c.photoType = "-" \/ (c.photoType = "serial" /\ t = "tag")}

\* handleSubmit goes on to its next upload, or calls onUpdate (1832): the
\* site view drops the selected asset and the drawer is gone (1397-1400);
\* then the finally block (1836-1839).
SubmitGoesOn(c) ==
    IF PhotosLeft(c) # {}
    THEN /\ detailCalls' = (detailCalls \ {c}) \cup
               {[c EXCEPT !.stage = "store",
                          !.photoType = IF "serial" \in PhotosLeft(c)
                                        THEN "serial" ELSE "tag"]}
         /\ assetDetail' = IF Alive(c) THEN [assetDetail EXCEPT !.uploading = TRUE]
                           ELSE assetDetail
    ELSE /\ detailCalls' = detailCalls \ {c}
         /\ assetDetail' = IF Alive(c)
                           THEN [open |-> FALSE, inst |-> assetDetail.inst]
                           ELSE assetDetail

\* The backend runs the update of the asset (1811-1820).
SubmitUpdate(c) ==
    /\ c \in detailCalls /\ c.kind = "submit" /\ c.stage = "update"
    /\ assetsTable' =
          {IF a.id = c.asset.id
           THEN [a EXCEPT !.serial_number = c.formData.serial_number,
                          !.tag_number = c.formData.tag_number,
                          !.status = c.formData.status,
                          !.remarks = c.formData.remarks]
           ELSE a : a \in assetsTable}
    /\ SubmitGoesOn(c)
    /\ last' = [op |-> "SubmitUpdate", arg |-> c.asset.id]
    /\ UNCHANGED <<viewVars, refVars, mounted, router, statusVars, backendVars, flightVars,
                   editVars, formVars, uploadVars, budget>>

\* The bucket stores the file of uploadPhoto (1779-1783).
SubmitStore(c) ==
    /\ c \in detailCalls /\ c.kind = "submit" /\ c.stage = "store"
    /\ storage' = Upserted(storage, DetailPath(c.asset, c.photoType, FileOf(c, c.photoType)),
                           FileOf(c, c.photoType))
    /\ detailCalls' = (detailCalls \ {c}) \cup {[c EXCEPT !.stage = "upsert"]}
    /\ last' = [op |-> "SubmitStore", arg |-> c.photoType]
    /\ UNCHANGED <<viewVars, refVars, mounted, router, statusVars, backendVars, flightVars,
                   editVars, formVars, uploads, uploadingPhoto, assetDetail,
                   assetsTable, budget>>

\* The record uploadPhoto writes (1791-1796).
DetailRecord(c) ==
    LET path == DetailPath(c.asset, c.photoType, FileOf(c, c.photoType)) IN
    [asset_id |-> c.asset.id, photo_type |-> c.photoType,
     storage_path |-> path, public_url |-> <<"public", path>>]

\* A table after an insert of the record whatever the table holds.
InsertedDetailPhoto(rows, rec) ==
    rows \cup
       {[k \in DOMAIN rec \cup {"id", "asset_table"} |->
            IF k = "id"
            THEN 1 + (CHOOSE m \in {0} \cup {ph.id : ph \in rows} :
                         \A ph \in rows : ph.id <= m)
            ELSE IF k = "asset_table" THEN NULL
            ELSE rec[k]]}

\* .upsert(rec, {onConflict: 'asset_id,photo_type'}) (1789-1798): the
\* record with the asset and photo type of rec takes the values of rec, and
\* rec is inserted, with a fresh id, if there is none.
UpsertedPhoto(rows, rec) ==
    LET hit == {ph \in rows : /\ ph.asset_id = rec.asset_id
                              /\ ph.photo_type = rec.photo_type}
    IN  IF hit = {}
        THEN InsertedDetailPhoto(rows, rec)
        ELSE (rows \ hit) \cup
                {[k \in DOMAIN ph |-> IF k \in DOMAIN rec THEN rec[k] ELSE ph[k]] :
                    ph \in hit}

\* The backend runs the upsert (1789-1800); the listeners of inserts are
\* notified of a record that was inserted.
SubmitUpsert(c) ==
    /\ c \in detailCalls /\ c.kind = "submit" /\ c.stage = "upsert"
    /\ assetPhotos' = UpsertedPhoto(assetPhotos, DetailRecord(c))
    /\ notifs' = IF Cardinality(assetPhotos') > Cardinality(assetPhotos)
                 THEN notifs \cup PhotoNotifs ELSE notifs
    /\ SubmitGoesOn(c)
    /\ last' = [op |-> "SubmitUpsert", arg |-> c.photoType]
    /\ UNCHANGED <<viewVars, refVars, mounted, router, statusVars, tables, channels, searches,
                   photoLoads, refreshes, editVars, formVars, uploadVars,
                   assetsTable, budget>>

\* A request of handleSubmit answers with an error: the alert and the
\* finally block (1833-1839).
SubmitError(c) ==
    /\ c \in detailCalls /\ c.kind = "submit"
    /\ Spend("failure")
    /\ detailCalls' = detailCalls \ {c}
    /\ assetDetail' = IF Alive(c)
                      THEN [assetDetail EXCEPT !.saving = FALSE, !.uploading = FALSE]
                      ELSE assetDetail
    /\ last' = [op |-> "SubmitError", arg |-> c.stage]
    /\ UNCHANGED <<viewVars, refVars, mounted, router, statusVars, backendVars, flightVars,
                   editVars, formVars, uploadVars, assetsTable>>

(***************************************************************************)
(* The drawer and its cascading selects.                                   *)
(***************************************************************************)
NextDetail ==
    \/ \E asset \in assetsTable : OpenDrawer(asset)
    \/ CloseDrawer
    \/ \E value \in {""} \cup Categories : setSelectedCategory(value)
    \/ \E value \in EquipmentTypeValues : setSelectedEquipmentType(value)
    \/ \E value \in ProductNameValues : setSelectedProductName(value)
    \/ \E c \in detailCalls : DetailAnswer(c)
    \/ \E c \in detailCalls : DetailError(c)

SpecDetail ==
    /\ InitWith([search |-> 0, empty |-> 0, external |-> 0,
                 failure |-> MaxFailures, edit |-> 0, form |-> 0, save |-> 0,
                 upload |-> 0, add |-> 0, detail |-> MaxDetail])
    /\ [][NextDetail]_vars

(***************************************************************************)
(* The drawer, opened and submitted with photos; its lookups stay          *)
(* unanswered here.                                                        *)
(***************************************************************************)
NextSubmit ==
    \/ \E asset \in assetsTable : OpenDrawer(asset)
    \/ \E photoType \in PhotoTypes, file \in UploadFiles :
          handleFileChange(photoType, file)
    \/ handleSubmit
    \/ \E c \in detailCalls : SubmitUpdate(c)
    \/ \E c \in detailCalls : SubmitStore(c)
    \/ \E c \in detailCalls : SubmitUpsert(c)
    \/ \E c \in detailCalls : SubmitError(c)

SpecSubmit ==
    /\ InitWith([search |-> 0, empty |-> 0, external |-> 0,
                 failure |-> MaxFailures, edit |-> 0, form |-> 0, save |-> 0,
                 upload |-> 0, add |-> 0, detail |-> MaxSubmitEvents])
    /\ [][NextSubmit]_vars

\* C17: photo metadata is append-only on every upload path of the client
\* (handlePhotoUpload, handleNewAssetPhotoUpload, the drawer's uploadPhoto):
\* the step that writes the metadata of a successful upload adds one new
\* record to asset_photos and leaves every record that was there as it was.
C17_PhotoMetadataAppendOnly ==
    [][(last'.op \in {"UploadInsert", "NewAssetUploadInsert", "SubmitUpsert"})
          => /\ assetPhotos \subseteq assetPhotos'
             /\ Cardinality(assetPhotos') = Cardinality(assetPhotos) + 1]_vars

(***************************************************************************)
(* C18.  In the asset-detail drawer, changing the category clears the      *)
(* equipment-type and product-name selections and both of their option     *)
(* lists, and changing the equipment type clears the product-name          *)
(* selection and its option list; no option list of a previous upstream    *)
(* selection stays in state: the list of equipment types is empty or the   *)
(* list of the selected category, the list of product names is empty or    *)
(* the list of the selected category and equipment type.                   *)
(***************************************************************************)
C18_UpstreamChangeClearsDownstream ==
    [][/\ (last'.op = "setSelectedCategory")
          => /\ assetDetail'.selectedEquipmentType = ""
             /\ assetDetail'.selectedProductName = ""
             /\ assetDetail'.equipmentTypes = {}
             /\ assetDetail'.productNames = {}
       /\ (last'.op = "setSelectedEquipmentType")
          => /\ assetDetail'.selectedProductName = ""
             /\ assetDetail'.productNames = {}
       /\ assetDetail'.open
          => /\ assetDetail'.equipmentTypes
                  \in {{}, EquipmentTypesOf(assetDetail'.selectedCategory)}
             /\ assetDetail'.productNames
                  \in {{}, ProductNamesOf(assetDetail'.selectedCategory,
                                          assetDetail'.selectedEquipmentType)}]_vars

(***************************************************************************)
(* The view with one search, the cascading selects of the rows and of the  *)
(* form of the new row, and lookups that may fail twice in a row.          *)
(***************************************************************************)
NextCatalog ==
    \/ \E q \in Queries : handleSearch(q)
    \/ \E s \in searches, tab \in TabSet : FetchTable(s, tab)
    \/ \E s \in searches : SearchJoin(s)
    \/ \E p \in photoLoads : PhotoQuery(p)
    \/ \E p \in photoLoads : PhotoSigned(p)
    \/ EquipmentTypesEffect
    \/ \E l \in lookups : LookupAnswer(l)
    \/ \E l \in lookups : LookupError(l)
    \/ \E rowId \in RowIds, value \in EquipmentTypeValues :
          handleEquipmentTypeChange(rowId, value)
    \/ \E rowId \in RowIds, value \in ProductNameValues :
          handleProductNameChange(rowId, value)
    \/ \E value \in EquipmentTypeValues : handleNewRowEquipmentTypeChange(value)
    \/ \E value \in ProductNameValues : handleNewRowProductNameChange(value)
    \/ Unmount

SpecCatalog ==
    /\ InitWith([search |-> EditSearches, empty |-> 0, external |-> 0,
                 failure |-> CatalogFailures, edit |-> MaxEdits,
                 form |-> MaxFormEdits, save |-> 0, upload |-> 0, add |-> 0,
                 detail |-> 0])
    /\ [][NextCatalog]_vars

\* The draft of the product number of the row l.rowId is one of nums.
RowNumberIn(l, nums) ==
    \A row \in RowsOf(tabData', l.tab) :
       row.id = l.rowId => row._product_number \in nums

(***************************************************************************)
(* C19.  When a lookup of the cascading selection fails (the equipment     *)
(* types, the product names, or the product number of the catalog with no  *)
(* further query to come), a user-visible error message is set, the        *)
(* dependent field gets nothing (the failed lookup caches and offers no    *)
(* options and fills in no product number), and the selects of the row     *)
(* are enabled.                                                            *)
(***************************************************************************)
C19_LookupFailureShowsMessage ==
    [][(last'.op = "LookupError" /\ mounted /\ lookups' \subseteq lookups)
          => \A l \in lookups \ lookups' :
                /\ error' # NULL
                /\ l.view = "v_equipment_types" => equipmentTypes' = equipmentTypes
                /\ l.view = "v_product_names"
                   => /\ productNames' = productNames
                      /\ l.caller = "form" => newRowProductNames' = {}
                /\ l.view = "product_catalog"
                   => tabData' = tabData /\ newRow' = newRow
                /\ l.caller = "row" => loadingDropdowns' = <<>>]_vars

(***************************************************************************)
(* C20.  The product-number lookup falls back exactly when the filtered    *)
(* lookup errors: then the lookup by product name alone is issued, and its *)
(* answer fills in a product number the catalog holds for the name; when   *)
(* the fallback errors too, nothing is filled in and no lookup follows;    *)
(* when the filtered lookup is answered, no second lookup is issued.       *)
(***************************************************************************)
C20_FallbackExactlyOnError ==
    [][/\ \A n \in lookups' \ lookups :
             n.fallback
             => /\ last'.op = "LookupError"
                /\ \E l \in lookups \ lookups' :
                      /\ l.view = "product_catalog" /\ ~l.fallback
                      /\ n = [l EXCEPT !.fallback = TRUE]
       /\ (last'.op = "LookupError")
          => \A l \in lookups \ lookups' :
                l.view = "product_catalog"
                => /\ tabData' = tabData /\ newRow' = newRow
                   /\ IF l.fallback THEN lookups' \subseteq lookups
                      ELSE [l EXCEPT !.fallback = TRUE] \in lookups'
       /\ (last'.op = "LookupAnswer")
          => \A l \in lookups \ lookups' :
                l.view = "product_catalog"
                => /\ lookups' \subseteq lookups
                   /\ (l.fallback /\ mounted)
                      => LET nums == {c.product_number :
                                        c \in {e \in ProductCatalog :
                                                 e.product_name = l.product_name}}
                         IN  IF nums = {}
                             THEN tabData' = tabData /\ newRow' = newRow
                             ELSE /\ l.caller = "row" => RowNumberIn(l, nums)
                                  /\ l.caller = "form"
                                     => newRow'.product_number \in nums]_vars

\* The filtered lookup of a product number failed, and the lookup by name
\* that followed failed as well: no lookup of the catalog is left.
C20_Witness ==
    /\ mounted
    /\ last = [op |-> "LookupError", arg |-> "product_catalog"]
    /\ budget.failure = 0
    /\ \A l \in lookups : l.view # "product_catalog"
    /\ newRow.product_name = "PN1" /\ newRow.product_number = ""

(***************************************************************************)
(* C21.  Every failed backend operation of the search view (a query of the *)
(* search, the re-fetch of a tab, the photo query of a photo load, a       *)
(* lookup with no further query to come, the update of a save, the insert  *)
(* of a new row, a photo upload) leaves the error banner set while the     *)
(* view is mounted.                                                        *)
(***************************************************************************)
C21_EveryFailureSetsBanner ==
    [][(/\ mounted
        /\ \/ last'.op \in {"FetchTableError", "RefreshQueryError",
                            "PhotoQueryError", "SaveError", "AddError",
                            "UploadError", "NewAssetUploadError"}
           \/ last'.op = "LookupError" /\ lookups' \subseteq lookups)
          => error' # NULL]_vars

\* The record of asset_photos a loaded photo came from.
Metadata(ph) == [k \in DOMAIN ph \ {"signedUrl"} |-> ph[k]]

\* The photos of the photo map pm.
LoadedPhotos(pm) == UNION {pm[k] : k \in DOMAIN pm}

(***************************************************************************)
(* C22.  If signing the URL of a photo fails during a photo load, the      *)
(* photo is kept in the photo map with an empty signed URL and every other *)
(* photo of the load is in the map with its signed URL; the load does not  *)
(* fail: the map holds exactly the photos the query returned, as many with *)
(* an empty URL as signing calls failed, and the banner is not touched.    *)
(***************************************************************************)
C22_SigningFailureKeepsPhoto ==
    [][(last'.op = "PhotoSigned" /\ mounted)
          => \A p \in photoLoads \ photoLoads' :
                LET shown == LoadedPhotos(photos') IN
                /\ {Metadata(ph) : ph \in shown} = p.data
                /\ Cardinality(shown) = Cardinality(p.data)
                /\ \A ph \in shown : ph.signedUrl \in {"", "signed"}
                /\ Cardinality({ph \in shown : ph.signedUrl = ""})
                      = budget.failure - budget'.failure
                /\ \A ph \in shown :
                      ph \in Get(photos', <<ph.asset_table, ph.asset_id>>, {})
                /\ error' = error]_vars

\* A load of two photos has ended: the URL of one could not be signed, the
\* other has its signed URL.
C22_Witness ==
    /\ mounted /\ last.op = "PhotoSigned"
    /\ \E ph1, ph2 \in LoadedPhotos(photos) :
          ph1.signedUrl = "" /\ ph2.signedUrl = "signed"

(***************************************************************************)
(* The text inputs and the tag-status select of the drawer (1755-1760,     *)
(* 1920-1975).                                                             *)
(***************************************************************************)
\* What the user types into the inputs that are named after a field of
\* formData (1925, 1937, 1970).
DetailTyped ==
    [serial_number |-> {"S9"}, tag_number |-> {"T9"}, remarks |-> {"r9"}]

\* handleInputChange (1755-1760): formData[e.target.name] = e.target.value.
handleInputChange(name, value) ==
    /\ assetDetail.open
    /\ assetDetail.formData[name] # value
    /\ Spend("detail")
    /\ assetDetail' = [assetDetail EXCEPT !.formData[name] = value]
    /\ last' = [op |-> "handleInputChange", arg |-> <<name, value>>]
    /\ UNCHANGED <<viewVars, refVars, mounted, router, statusVars, backendVars, flightVars,
                   editVars, formVars, uploadVars, detailCalls, assetsTable>>

\* The tag-status select (1945-1964): its onChange sets selectedTagStatus.
setSelectedTagStatus(value) ==
    /\ assetDetail.open /\ ~assetDetail.loadingStatuses
    /\ value \in ({""} \cup assetDetail.tagStatuses) \ {assetDetail.selectedTagStatus}
    /\ Spend("detail")
    /\ assetDetail' = [assetDetail EXCEPT !.selectedTagStatus = value]
    /\ last' = [op |-> "setSelectedTagStatus", arg |-> value]
    /\ UNCHANGED <<viewVars, refVars, mounted, router, statusVars, backendVars, flightVars,
                   editVars, formVars, uploadVars, detailCalls, assetsTable>>

(***************************************************************************)
(* The drawer, its fields edited and submitted without photos.             *)
(***************************************************************************)
NextStatus ==
    \/ \E asset \in assetsTable : OpenDrawer(asset)
    \/ \E c \in detailCalls : DetailAnswer(c)
    \/ \E name \in DOMAIN DetailTyped :
          \E value \in DetailTyped[name] : handleInputChange(name, value)
    \/ \E value \in {""} \cup TagStatuses : setSelectedTagStatus(value)
    \/ handleSubmit
    \/ \E c \in detailCalls : SubmitUpdate(c)
    \/ \E c \in detailCalls : SubmitError(c)

SpecStatus ==
    /\ InitWith([search |-> 0, empty |-> 0, external |-> 0,
                 failure |-> MaxFailures, edit |-> 0, form |-> 0, save |-> 0,
                 upload |-> 0, add |-> 0, detail |-> MaxDetail])
    /\ [][NextStatus]_vars

(***************************************************************************)
(* C23.  In the asset-detail drawer, changing the status (the tag-status   *)
(* selection) and saving persists the chosen status on the asset, as the   *)
(* serial number, the tag number and the remarks of the form are           *)
(* persisted: after the update of a submit the asset has the values the    *)
(* form held when Save was pressed, and the status that was selected.      *)
(***************************************************************************)
C23_DrawerPersistsStatus ==
    [][(last'.op = "SubmitUpdate")
          => \A c \in detailCalls \ detailCalls' :
                (c.kind = "submit" /\ c.stage = "update")
                => \E a \in assetsTable' :
                      /\ a.id = c.asset.id
                      /\ a.serial_number = c.formData.serial_number
                      /\ a.tag_number = c.formData.tag_number
                      /\ a.remarks = c.formData.remarks
                      /\ c.selectedTagStatus # "" => a.status = c.selectedTagStatus]_vars

(***************************************************************************)
(* The routes (App), the login page (Login, 1482-1568) and the session.    *)
(* The guard ProtectedRoute and the context AuthContext are described      *)
(* by the specification only: the session layer tracks the authenticated   *)
(* user and gates the protected views; without a valid session a           *)
(* protected view redirects to the login page.                             *)
(***************************************************************************)
\* The addresses a user opens, and what is typed into the login page.
Urls == {"/", "/search", "/site/A", "/x"}

Emails == {"", "e"}

Passwords == {"", "p", "x"}

\* The account the identity service knows.
Accounts == {<<"e", "p">>}

\* A route table whose site route is not wrapped by the guard.
RouteElementOpenSite(path) ==
    CASE path = "/" -> [view |-> "Login", guarded |-> FALSE]
      [] path = "/search" -> [view |-> "SiteSearch", guarded |-> TRUE]
      [] path = "/site/A" -> [view |-> "SiteDetail", guarded |-> FALSE]
      [] OTHER -> [view |-> "Navigate", guarded |-> FALSE]

\* The route table of App (14-31): the element of the route that matches
\* the path and whether ProtectedRoute wraps it; the catch-all route
\* navigates to the root.
RouteElement(path) ==
    CASE path = "/" -> [view |-> "Login", guarded |-> FALSE]
      [] path = "/search" -> [view |-> "SiteSearch", guarded |-> TRUE]
      [] path = "/site/A" -> [view |-> "SiteDetail", guarded |-> TRUE]
      [] OTHER -> [view |-> "Navigate", guarded |-> FALSE]

\* ProtectedRoute: its children with a session, a redirect to the login
\* page without one.
ProtectedRoute(session, view) == IF session THEN view ELSE "Navigate"

\* The path the router settles on for an address: a redirect replaces the
\* path by the root, whose element is the login page.
Settle(path, session) ==
    LET e == RouteElement(path)
        view == IF e.guarded THEN ProtectedRoute(session, e.view) ELSE e.view
    IN  IF view = "Navigate" THEN "/" ELSE path

\* The view that is shown at the path the router settled on.
ShownView == RouteElement(router.path).view

\* The state of a freshly mounted login page (1483-1488).
FreshLogin(r) ==
    [r EXCEPT !.email = "", !.password = "", !.err = NULL, !.loading = FALSE]

RouteFrame ==
    UNCHANGED <<viewVars, refVars, mounted, statusVars, backendVars, flightVars, editVars,
                formVars, uploadVars, assetDetail, detailCalls, assetsTable,
                budget>>

\* The user opens an address: the application starts anew with the session
\* the client has kept, and no request of the page before is awaited.
LoadPage(url) ==
    /\ router' = [FreshLogin(router) EXCEPT !.path = Settle(url, router.session),
                                            !.calls = {}]
    /\ last' = [op |-> "LoadPage", arg |-> url]
    /\ RouteFrame

\* The inputs of the login page (1538-1552).
setEmail(value) ==
    /\ ShownView = "Login" /\ router.email # value
    /\ router' = [router EXCEPT !.email = value]
    /\ last' = [op |-> "setEmail", arg |-> value]
    /\ RouteFrame

setPassword(value) ==
    /\ ShownView = "Login" /\ router.password # value
    /\ router' = [router EXCEPT !.password = value]
    /\ last' = [op |-> "setPassword", arg |-> value]
    /\ RouteFrame

\* The Sign In button (1554): signIn up to signInWithPassword (1490-1498).
signIn ==
    /\ ShownView = "Login"
    /\ ~router.loading /\ router.email # "" /\ router.password # ""
    /\ router' = [router EXCEPT !.err = NULL, !.loading = TRUE,
                                !.calls = @ \cup {[email |-> router.email,
                                                   password |-> router.password]}]
    /\ last' = [op |-> "signIn", arg |-> router.email]
    /\ RouteFrame

\* What signInWithPassword can return (1498): an error, a session, or
\* neither.
SignInResults(c) ==
    IF <<c.email, c.password>> \in Accounts THEN {"session", "none"} ELSE {"error"}

\* signIn after signInWithPassword has returned (1505-1520): the error is
\* shown, or with a session the page navigates to /search.
SignInAnswer(c) ==
    /\ c \in router.calls
    /\ \E result \in SignInResults(c) :
          /\ router' =
                LET session == router.session \/ result = "session"
                    r == [router EXCEPT !.calls = @ \ {c}, !.loading = FALSE,
                                        !.session = session]
                IN  CASE result = "error" -> [r EXCEPT !.err = "Invalid login"]
                      [] result = "session" ->
                            [r EXCEPT !.path = Settle("/search", session)]
                      [] OTHER -> r
          /\ last' = [op |-> "SignInAnswer", arg |-> result]
    /\ RouteFrame

\* The Logout button of the search view (670-677, 887): signOut ends the
\* session, then the page navigates to the root.
handleLogout ==
    /\ ShownView = "SiteSearch"
    /\ router' = [router EXCEPT !.session = FALSE, !.path = "/"]
    /\ last' = [op |-> "handleLogout", arg |-> 0]
    /\ RouteFrame

\* The back button of the site view (1405): navigate('/search').
BackToSearch ==
    /\ ShownView = "SiteDetail"
    /\ router' = [router EXCEPT !.path = Settle("/search", router.session)]
    /\ last' = [op |-> "BackToSearch", arg |-> 0]
    /\ RouteFrame

\* The session ends at the identity service: the guard of the view that is
\* shown redirects to the login page.
SessionEnds ==
    /\ router.session
    /\ router' = [(IF Settle(router.path, FALSE) # router.path
                   THEN FreshLogin(router) ELSE router)
                     EXCEPT !.session = FALSE, !.path = Settle(router.path, FALSE)]
    /\ last' = [op |-> "SessionEnds", arg |-> 0]
    /\ RouteFrame

NextRoute ==
    \/ \E url \in Urls : LoadPage(url)
    \/ \E value \in Emails : setEmail(value)
    \/ \E value \in Passwords : setPassword(value)
    \/ signIn
    \/ \E c \in router.calls : SignInAnswer(c)
    \/ handleLogout
    \/ BackToSearch
    \/ SessionEnds

SpecRoute ==
    /\ InitWith([search |-> 0, empty |-> 0, external |-> 0, failure |-> 0,
                 edit |-> 0, form |-> 0, save |-> 0, upload |-> 0, add |-> 0,
                 detail |-> 0])
    /\ [][NextRoute]_vars

(***************************************************************************)
(* C24.  A protected view (/search, /site/:siteId) is never shown without  *)
(* a session: the path the router shows is the root or, with a session, a  *)
(* protected route; an unknown path is never shown (it redirects to the    *)
(* root); and the login page moves on to /search only in the step in       *)
(* which the sign-in returned a session.                                   *)
(***************************************************************************)
C24_ProtectedViewsNeedSession ==
    [][/\ router'.path \in {"/", "/search", "/site/A"}
       /\ router'.path \in {"/search", "/site/A"} => router'.session
       /\ (router.path = "/" /\ router'.path # "/" /\ last'.op # "LoadPage")
          => /\ last' = [op |-> "SignInAnswer", arg |-> "session"]
             /\ router'.path = "/search"]_vars

\* The sign-in returned a session and the search view is shown.
C24_Witness ==
    /\ last = [op |-> "SignInAnswer", arg |-> "session"]
    /\ router.path = "/search" /\ router.session

(***************************************************************************)
(* The tag statuses of the search view: fetchTagStatuses (216-240) and the *)
(* effect that calls it (250-254).  fetchTagStatuses is a useCallback on   *)
(* [tagStatuses]: it is a new function whenever tagStatuses holds another  *)
(* array, and the effect runs again after a render with another            *)
(* hasSearched or another fetchTagStatuses.                                *)
(***************************************************************************)
\* What the view v_tag_status can hold when it is queried.
StatusViews == {{}, TagStatuses}

StatusFrame ==
    UNCHANGED <<refVars, mounted, backendVars, flightVars, editVars, formVars,
                uploadVars, assetDetail, detailCalls, assetsTable, router>>

\* The effect (250-254) and fetchTagStatuses up to its query (216-222).
TagStatusEffect ==
    /\ mounted
    /\ statusDeps # <<hasSearched, statusRef>>
    /\ statusDeps' = <<hasSearched, statusRef>>
    /\ IF hasSearched /\ tagStatuses = {}
       THEN /\ statusRequests < MaxStatusRequests
            /\ statusCalls' = statusCalls + 1
            /\ statusRequests' = statusRequests + 1
       ELSE UNCHANGED <<statusCalls, statusRequests>>
    /\ last' = [op |-> "TagStatusEffect", arg |-> hasSearched]
    /\ StatusFrame
    /\ UNCHANGED <<viewVars, tagStatuses, statusRef, budget>>

\* The query is answered (224-236): the statuses, without duplicates and
\* sorted, are set as a new array.
TagStatusAnswer(result) ==
    /\ statusCalls > 0
    /\ statusCalls' = statusCalls - 1
    /\ tagStatuses' = SetState(result, tagStatuses)
    /\ statusRef' = SetState(statusRef + 1, statusRef)
    /\ last' = [op |-> "TagStatusAnswer", arg |-> result]
    /\ StatusFrame
    /\ UNCHANGED <<viewVars, statusDeps, statusRequests, budget>>

\* The query answers with an error (226-230): the banner, no statuses.
TagStatusError ==
    /\ statusCalls > 0
    /\ Spend("failure")
    /\ statusCalls' = statusCalls - 1
    /\ error' = SetState("Failed to load tag statuses", error)
    /\ last' = [op |-> "TagStatusError", arg |-> 0]
    /\ StatusFrame
    /\ UNCHANGED <<siteId, activeTab, tabData, tabCounts, photos, loading,
                   hasSearched, tagStatuses, statusRef, statusDeps, statusRequests>>

\* A status select that offers the loaded statuses only.
StatusOptionsLoadedOnly(row) == {""} \cup tagStatuses

\* The options of a row's status select (1226-1234).
StatusOptions(row) ==
    {""} \cup tagStatuses
         \cup (IF row._status # "" THEN {row._status} ELSE {})

\* The status select of a row (1222-1225): handleFieldChange with one of
\* its options.
handleStatusChange(rowId, value) ==
    /\ \E row \in ShownRows : row.id = rowId /\ value \in StatusOptions(row)
    /\ handleFieldChange(rowId, "_status", value)

(***************************************************************************)
(* The view with its searches, the tag statuses and the selects of the     *)
(* rows.                                                                   *)
(***************************************************************************)
NextTags ==
    \/ \E q \in Queries : handleSearch(q)
    \/ \E s \in searches, tab \in TabSet : FetchTable(s, tab)
    \/ \E s \in searches : SearchJoin(s)
    \/ \E p \in photoLoads : PhotoQuery(p)
    \/ \E p \in photoLoads : PhotoSigned(p)
    \/ EquipmentTypesEffect
    \/ \E l \in lookups : LookupAnswer(l)
    \/ TagStatusEffect
    \/ \E result \in StatusViews : TagStatusAnswer(result)
    \/ TagStatusError
    \/ \E rowId \in RowIds, value \in EquipmentTypeValues :
          handleEquipmentTypeChange(rowId, value)
    \/ \E rowId \in RowIds, value \in {""} \cup TagStatuses :
          handleStatusChange(rowId, value)
    \/ Unmount

SpecTags ==
    /\ InitWith([search |-> EditSearches, empty |-> MaxEmptySearches,
                 external |-> 0, failure |-> MaxFailures, edit |-> MaxEdits,
                 form |-> 0, save |-> 0, upload |-> 0, add |-> 0, detail |-> 0])
    /\ [][NextTags]_vars

\* The options offer the fetched list, the draft value, and beyond the
\* list and the empty option nothing but the draft value.
Offers(options, list, draft) ==
    /\ list \subseteq options
    /\ draft \in options
    /\ options \ (list \cup {""}) \subseteq {draft}

(***************************************************************************)
(* C25.  For every displayed row and each of the equipment-type,           *)
(* product-name and status dropdowns, the offered options are the fetched  *)
(* option list plus the row's current draft value when that value is       *)
(* non-empty and not in the list, so the current selection is always among *)
(* the options.                                                            *)
(***************************************************************************)
C25_OptionsHoldCurrentValue ==
    \A row \in ShownRows :
       /\ Offers(EquipmentTypeOptions(row), Get(equipmentTypes, activeTab, {}),
                 row._equipment_type)
       /\ Offers(ProductNameOptions(row),
                 Get(productNames, CacheKey(activeTab, row._equipment_type), {}),
                 row._product_name)
       /\ Offers(StatusOptions(row), tagStatuses, row._status)

\* A row is displayed whose status and product name are not in the lists
\* that are loaded, while the equipment types of the tab are loaded.
C25_Witness ==
    \E row \in ShownRows :
       /\ activeTab \in DOMAIN equipmentTypes
       /\ row._status # "" /\ row._status \notin tagStatuses
       /\ row._product_name # ""
       /\ row._product_name
             \notin Get(productNames, CacheKey(activeTab, row._equipment_type), {})

(***************************************************************************)
(* C28.  The tag-status lookup is loaded once after the first search:      *)
(* whatever a query of v_tag_status answers (statuses, an empty list, an   *)
(* error), the effect issues a query only when hasSearched has changed     *)
(* since it ran last, so the queries are bounded by the searches and the   *)
(* view settles with no query pending or about to be issued.               *)
(***************************************************************************)
C28_TagStatusesLoadedOnce ==
    [][(last'.op = "TagStatusEffect" /\ statusRequests' > statusRequests)
          => statusDeps[1] # hasSearched]_vars

(***************************************************************************)
(* Backend writes of the search view.                                      *)
(***************************************************************************)
\* The handlers that edit a displayed row, with the answer of the lookup
\* they await (478-539).
RowEditOps ==
    {"handleFieldChange", "handleEquipmentTypeChange", "handleProductNameChange",
     "LookupAnswer", "LookupError"}

\* The canonical fields of the rows prev holds, by tab and position; a tab
\* without a key holds no rows.
CanonicalState(prev) ==
    [tab \in TabSet |->
        IF tab \in DOMAIN prev
        THEN [i \in DOMAIN prev[tab] |->
                [f \in Fields \cup {"id"} |-> prev[tab][i][f]]]
        ELSE <<>>]

\* C26: no step removes a row from a table; a table changes only in the
\* update of a save, the insert of the add-row action or the change of
\* another client; a field edit, an equipment-type change, a product-name
\* change and the answer of its lookup (the product-number auto-fill) leave
\* the backend alone, start no save, insert or upload, and leave the
\* canonical fields of the displayed rows as they were.
C26_WritesOnlyByAddAndSave ==
    [][/\ \A t \in Tables :
             {r.id : r \in tables[t]} \subseteq {r.id : r \in tables'[t]}
       /\ tables' # tables
             => last'.op \in {"SaveUpdate", "AddInsert", "ExternalChange"}
       /\ last'.op \in RowEditOps
             => /\ tables' = tables /\ assetPhotos' = assetPhotos
                /\ saves' = saves /\ adds' = adds /\ uploads' = uploads
                /\ CanonicalState(tabData') = CanonicalState(tabData)]_vars

\* The product number of a displayed row was filled in from the catalog
\* while the row of the backend still holds the old one.
C26_Witness ==
    /\ last = [op |-> "LookupAnswer", arg |-> "product_catalog"]
    /\ \E row \in ShownRows :
          /\ row._editing /\ row._product_number # row.product_number
          /\ \E r \in tables[TAB_TABLE_MAP[activeTab]] :
                r.id = row.id /\ r.product_number = row.product_number

(***************************************************************************)
(* A save whose update fails.                                              *)
(***************************************************************************)
\* Everything of a row but its saving flag.
WithoutSaving(row) == [k \in (DOMAIN row) \ {"_saving"} |-> row[k]]

\* C27: when the update of a save fails, the table of the backend is as it
\* was, every row of the view keeps its canonical fields, its draft fields
\* and its edited flag, the saving flag of the saved row is cleared, and the
\* error banner is set.
C27_FailedSaveKeepsDraft ==
    [][(mounted /\ last'.op = "SaveError")
          => /\ tables' = tables
             /\ error' # NULL
             /\ \A tab \in DOMAIN tabData :
                   /\ tab \in DOMAIN tabData'
                   /\ DOMAIN tabData'[tab] = DOMAIN tabData[tab]
                   /\ \A i \in DOMAIN tabData[tab] :
                         /\ WithoutSaving(tabData'[tab][i]) = WithoutSaving(tabData[tab][i])
                         /\ tabData'[tab][i]._saving =
                               IF <<tab, tabData[tab][i].id>> = last'.arg
                               THEN FALSE ELSE tabData[tab][i]._saving]_vars

\* The save of an edited row has just failed: the row still shows its draft,
\* is marked edited and can be saved again, and the banner is up.
C27_Witness ==
    /\ last.op = "SaveError" /\ error = "Failed to save"
    /\ \E row \in ShownRows :
          /\ <<activeTab, row.id>> = last.arg
          /\ row._editing /\ ~row._saving
          /\ \E f \in Fields : row[DraftOf[f]] # row[f]
          /\ \E r \in tables[TAB_TABLE_MAP[activeTab]] :
                r.id = row.id /\ \A f \in Fields : r[f] = row[f]

(***************************************************************************)
(* The insert of the add-row action (729-793).                             *)
(***************************************************************************)
\* What the user types into the serial and tag inputs of the form.
TypedNewRowTexts == [serial |-> {"S9"}, tag |-> {"T9"}]

\* The text inputs of the form (985-1001).
setNewRowText(field, value) ==
    /\ FormShown
    /\ newRow[field] # value
    /\ Spend("form")
    /\ newRow' = [newRow EXCEPT ![field] = value]
    /\ last' = [op |-> "setNewRowText", arg |-> field]
    /\ UNCHANGED <<viewVars, refVars, mounted, detailVars, backendVars, flightVars,
                   editVars, newRowProductNames, addVars, uploadVars>>

NextInsert ==
    \/ \E q \in Queries : handleSearch(q)
    \/ \E s \in searches, tab \in TabSet : FetchTable(s, tab)
    \/ \E s \in searches : SearchJoin(s)
    \/ \E p \in photoLoads : PhotoQuery(p)
    \/ \E p \in photoLoads : PhotoSigned(p)
    \/ \E r \in refreshes : RefreshQuery(r)
    \/ \E r \in refreshes : RefreshApply(r)
    \/ \E n \in notifs : Deliver(n)
    \/ EquipmentTypesEffect
    \/ \E l \in lookups : LookupAnswer(l)
    \/ \E value \in EquipmentTypeValues : handleNewRowEquipmentTypeChange(value)
    \/ \E value \in ProductNameValues : handleNewRowProductNameChange(value)
    \/ \E value \in TagStatuses : setNewRowStatus(value)
    \/ \E field \in DOMAIN TypedNewRowTexts :
          \E value \in TypedNewRowTexts[field] : setNewRowText(field, value)
    \/ handleAddNewRow
    \/ \E a \in adds : AddInsert(a)
    \/ \E a \in adds : AddError(a)

InitInsert ==
    InitWith([search |-> EditSearches, empty |-> MaxEmptySearches, external |-> 0,
              failure |-> MaxFailures, edit |-> 0, form |-> InsertFormEdits,
              save |-> 0, upload |-> 0, add |-> InsertAdds, detail |-> 0])

SpecInsert == InitInsert /\ [][NextInsert]_vars

\* One of the four required values of the add-row action is missing.
AddRowIncomplete ==
    \/ siteId = <<>>
    \/ newRow.equipment_type = ""
    \/ newRow.product_name = ""
    \/ newRow.status = ""

\* C29: a call of the add-row action with an empty site id, equipment type,
\* product name or status starts no insert and sets the error message; a
\* call with all four present starts exactly one insert, for the active tab
\* and the site id of the view, and leaves the backend alone; the insert
\* adds exactly one row, to the table of that tab, with that site id, the
\* values of the form, and "NA" for a serial or a tag left empty.
C29_AddRowValidatesAndInserts ==
    [][/\ last'.op = "handleAddNewRow"
             => /\ tables' = tables
                /\ IF AddRowIncomplete
                   THEN adds' = adds /\ error' # NULL
                   ELSE adds' =
                           adds \cup {[id |-> NextId, tab |-> activeTab,
                                       site |-> siteId, row |-> newRow,
                                       stage |-> "insert"]}
                        /\ Cardinality(adds') = Cardinality(adds) + 1
       /\ last'.op = "AddInsert"
             => \E a \in adds \ adds' :
                   LET table == TAB_TABLE_MAP[a.tab]
                   IN  /\ a.stage = "insert"
                       /\ \A tb \in Tables \ {table} : tables'[tb] = tables[tb]
                       /\ tables[table] \subseteq tables'[table]
                       /\ Cardinality(tables'[table] \ tables[table]) = 1
                       /\ \A r \in tables'[table] \ tables[table] :
                             /\ r.site_id = a.site
                             /\ r.category = a.tab
                             /\ r.equipment_type = a.row.equipment_type
                             /\ r.product_name = a.row.product_name
                             /\ r.status = a.row.status
                             /\ r.serial = IF a.row.serial = "" THEN "NA"
                                           ELSE a.row.serial
                             /\ r.tag = IF a.row.tag = "" THEN "NA"
                                        ELSE a.row.tag]_vars

\* A row was inserted from a form with a typed serial and an empty tag.
C29_Witness ==
    /\ last.op = "AddInsert"
    /\ \E r \in tables[TAB_TABLE_MAP[activeTab]] :
          /\ r.id = newAssetId /\ r.site_id = siteId
          /\ r.serial = "S9" /\ r.tag = "NA" /\ r.status # ""

(***************************************************************************)
(* The photos shown for a row (663-667) and for the asset of the drawer    *)
(* (1742-1754, 1842-1845).                                                 *)
(***************************************************************************)
\* photos[`${table}:${assetId}`] || []
getAssetPhotos(table, assetId) == Get(photos, <<table, assetId>>, {})

\* The photos getPhotoUrl can pick for the drawer: the loaded ones that
\* have a public URL (1842-1845, 1983-2001).
DrawerPhotos ==
    IF assetDetail.open
    THEN {ph \in assetDetail.existingPhotos : "public_url" \in DOMAIN ph}
    ELSE {}

\* The search view: the photos of a row are the loaded photos of its table
\* and id.
RowPhotosByPair ==
    \A tab \in TabSet : \A row \in RowsOf(tabData, tab) :
       getAssetPhotos(TAB_TABLE_MAP[tab], row.id) =
          {ph \in LoadedPhotos(photos) :
              ph.asset_table = TAB_TABLE_MAP[tab] /\ ph.asset_id = row.id}

\* The drawer: a photo shown for the asset is one of the assets table and
\* of the id of the asset.
DrawerPhotosByPair ==
    \A ph \in DrawerPhotos :
       ph.asset_table = "assets" /\ ph.asset_id = assetDetail.asset.id

NextAlbum ==
    \/ \E asset \in assetsTable : OpenDrawer(asset)
    \/ \E photoType \in PhotoTypes, file \in UploadFiles :
          handleFileChange(photoType, file)
    \/ handleSubmit
    \/ \E c \in detailCalls : SubmitUpdate(c)
    \/ \E c \in detailCalls : SubmitStore(c)
    \/ \E c \in detailCalls : SubmitUpsert(c)
    \/ \E c \in detailCalls : DetailAnswer(c)

SpecAlbum ==
    /\ InitWith([search |-> 0, empty |-> 0, external |-> 0, failure |-> 0,
                 edit |-> 0, form |-> 0, save |-> 0, upload |-> 0, add |-> 0,
                 detail |-> MaxDetail])
    /\ [][NextAlbum]_vars

\* C30: photos are attributed by the pair of owning table and asset id: in
\* the search view the photos shown for a row are exactly the loaded photos
\* of the row's table and id, and in the drawer every photo shown for the
\* asset is a photo of the assets table and of the asset's id.
C30_PhotosByTableAndId == RowPhotosByPair /\ DrawerPhotosByPair

(***************************************************************************)
(* The site of the rows the view holds.                                    *)
(***************************************************************************)
\* C31: whenever no search is in flight, every row of tab data has the
\* site_id that the siteId state names, the one the add-row and the
\* photo-upload actions use (618, 756).
C31_RowsBelongToSiteId ==
    (mounted /\ searches = {} /\ ~loading)
       => \A tab \in TabSet : \A row \in RowsOf(tabData, tab) :
             row.site_id = siteId

(***************************************************************************)
(* Drafts and the edited flag.                                             *)
(***************************************************************************)
\* The draft a canonical value gives (canonical || '', 296-302).
DraftText(v) == IF v = NULL THEN "" ELSE v

\* C32: a row that is not marked edited holds no unsaved edit: each of its
\* draft fields is the text of its canonical field, so the Save button
\* (disabled unless the row is marked edited, 1295) is never disabled for a
\* row with unsaved edits.
C32_UneditedRowHoldsNoEdits ==
    \A tab \in TabSet : \A row \in RowsOf(tabData, tab) :
       ~row._editing => \A f \in Fields : row[DraftOf[f]] = DraftText(row[f])

\* C33: at most one search is in flight at any time: while a search is
\* loading no further search is started, by the button or by the Enter key.
C33_OneSearchInFlight == Cardinality(searches) <= 1

\* C34: whenever hasSearched is false, tab data holds no row, every tab
\* count is zero, the photo map holds no photo and the results table shows
\* no row.
C34_NoSearchNoRows ==
    (mounted /\ ~hasSearched)
       => /\ \A tab \in TabSet : RowsOf(tabData, tab) = {}
          /\ \A tab \in DOMAIN tabCounts : tabCounts[tab] = 0
          /\ LoadedPhotos(photos) = {}
          /\ ShownRows = {}

NextCascade ==
    \/ \E q \in Queries : handleSearch(q)
    \/ \E s \in searches, tab \in TabSet : FetchTable(s, tab)
    \/ \E s \in searches : SearchJoin(s)
    \/ \E p \in photoLoads : PhotoQuery(p)
    \/ \E p \in photoLoads : PhotoSigned(p)
    \/ EquipmentTypesEffect
    \/ \E l \in lookups : LookupAnswer(l)
    \/ \E rowId \in RowIds, value \in EquipmentTypeValues :
          handleEquipmentTypeChange(rowId, value)
    \/ \E rowId \in RowIds, value \in ProductNameValues :
          handleProductNameChange(rowId, value)

SpecCascade ==
    /\ InitWith([search |-> EditSearches, empty |-> 0, external |-> 0,
                 failure |-> 0, edit |-> CascadeEdits, form |-> 0, save |-> 0,
                 upload |-> 0, add |-> 0, detail |-> 0])
    /\ [][NextCascade]_vars

\* C35: the product-number auto-fill never lands on a row whose product
\* name was cleared by an equipment-type change: a lookup answer changes
\* the product-number draft of an edited row only if the row still has a
\* product name, so
\* after the change and the lookups the name and the number are both empty
\* unless a name was picked after the change.
C35_LateAutoFillDropped ==
    [][(mounted /\ last'.op = "LookupAnswer")
          => \A tab \in DOMAIN tabData : \A i \in DOMAIN tabData[tab] :
                (/\ tab \in DOMAIN tabData' /\ i \in DOMAIN tabData'[tab]
                 /\ tabData[tab][i]._editing
                 /\ tabData'[tab][i]._product_number # tabData[tab][i]._product_number)
                => tabData[tab][i]._product_name # ""]_vars

(***************************************************************************)
(* Saves of one row that overlap.                                          *)
(***************************************************************************)
NextResave ==
    \/ \E q \in Queries : handleSearch(q)
    \/ \E s \in searches, tab \in TabSet : FetchTable(s, tab)
    \/ \E s \in searches : SearchJoin(s)
    \/ \E p \in photoLoads : PhotoQuery(p)
    \/ \E p \in photoLoads : PhotoSigned(p)
    \/ \E r \in refreshes : RefreshQuery(r)
    \/ \E r \in refreshes : RefreshApply(r)
    \/ \E n \in notifs : Deliver(n)
    \/ \E rowId \in RowIds, field \in DOMAIN TypedValues :
          \E value \in TypedValues[field] : handleFieldChange(rowId, field, value)
    \/ \E rowId \in RowIds : handleSaveRow(rowId)
    \/ \E sv \in saves : SaveUpdate(sv)
    \/ \E sv \in saves : SaveApply(sv)

SpecResave ==
    /\ InitWith([search |-> EditSearches, empty |-> 0, external |-> 0,
                 failure |-> 0, edit |-> MaxEdits, form |-> 0,
                 save |-> RepeatedSaves, upload |-> 0, add |-> 0, detail |-> 0])
    /\ [][NextResave]_vars

\* The saves of a row whose handler has not returned yet.
SavesOf(tab, rowId) == {sv \in saves : sv.tab = tab /\ sv.row.id = rowId}

\* C36: for every row at most one save is in flight at any time.
C36_OneSavePerRow ==
    \A tab \in TabSet : \A rowId \in RowIds : Cardinality(SavesOf(tab, rowId)) <= 1

(***************************************************************************)
(* The tab buttons (920-928), shown once a search was made and none is     *)
(* loading (912-917): the click sets activeTab and nothing else; the form   *)
(* of the new row and the id of the new asset stay as they are.            *)
(***************************************************************************)
setActiveTab(tab) ==
    /\ mounted /\ ~loading /\ hasSearched
    /\ tab \in TabSet \ {activeTab}
    /\ activeTab' = tab
    /\ last' = [op |-> "setActiveTab", arg |-> tab]
    /\ UNCHANGED <<siteId, tabData, tabCounts, photos, loading, error, hasSearched,
                   refVars, mounted, detailVars, backendVars, flightVars,
                   editVars, formVars, uploadVars, budget>>

\* The tabs the user switches between.  The notifications and the re-fetch
\* that follow an insert stay pending in the runs with tab switches.
SwitchTabs == {"Enclosure", "RAN-Active"}

NextTabs ==
    \/ \E q \in Queries : handleSearch(q)
    \/ \E s \in searches, tab \in TabSet : FetchTable(s, tab)
    \/ \E s \in searches : SearchJoin(s)
    \/ \E p \in photoLoads : PhotoQuery(p)
    \/ \E p \in photoLoads : PhotoSigned(p)
    \/ EquipmentTypesEffect
    \/ \E l \in lookups : LookupAnswer(l)
    \/ \E tab \in SwitchTabs : setActiveTab(tab)
    \/ \E value \in EquipmentTypeValues : handleNewRowEquipmentTypeChange(value)
    \/ \E value \in ProductNameValues : handleNewRowProductNameChange(value)
    \/ \E value \in TagStatuses : setNewRowStatus(value)
    \/ handleAddNewRow
    \/ \E a \in adds : AddInsert(a)
    \/ \E photoType \in PhotoTypes, file \in UploadFiles :
          handleNewAssetPhotoUpload(photoType, file)
    \/ \E u \in uploads : UploadStore(u)
    \/ \E u \in uploads : NewAssetUploadInsert(u)

SpecTabs ==
    /\ InitWith([search |-> EditSearches, empty |-> 0, external |-> 0,
                 failure |-> 0, edit |-> 0, form |-> MaxFormEdits, save |-> 0,
                 upload |-> AddUploads, add |-> MaxAdds, detail |-> 0])
    /\ [][NextTabs]_vars

\* C37: every photo metadata record names in asset_table the table that
\* holds the row its asset_id names.
C37_PhotoNamesTableOfItsRow ==
    \A ph \in assetPhotos :
       ph.asset_table \in Tables
          => \E r \in tables[ph.asset_table] : r.id = ph.asset_id

\* The rows the add-row form has inserted into the table of a tab.
InsertedRows(tab) ==
    {r \in tables[TAB_TABLE_MAP[tab]] :
        \E i \in DOMAIN NewRowIds : r.id = NewRowIds[i]}

\* C38: every row inserted by the add-row form has an equipment type that
\* is offered for the category of the table it was inserted into, and a
\* product name that is offered for that category and equipment type.
C38_InsertedRowFitsItsCategory ==
    \A tab \in TabSet : \A r \in InsertedRows(tab) :
       /\ r.equipment_type \in EquipmentTypesOf(tab)
       /\ r.product_name \in ProductNamesOf(tab, r.equipment_type)

(***************************************************************************)
(* The options of the drawer's cascade once its lookups have answered.     *)
(***************************************************************************)
\* No lookup of the cascade of the mounted drawer is pending.
CascadeSettled ==
    \A c \in detailCalls :
       (c.inst = assetDetail.inst) => c.kind \notin {"v_equipment_types", "v_product_names"}

\* C39: in the drawer, once the lookups of the cascade have settled, the
\* equipment-type options are those of the selected category, or none, and
\* the product-name options are those of the selected category and
\* equipment type, or none.
C39_DrawerOptionsFitSelection ==
    (assetDetail.open /\ CascadeSettled)
       => /\ assetDetail.equipmentTypes
                \in {EquipmentTypesOf(assetDetail.selectedCategory), {}}
          /\ assetDetail.productNames
                \in {ProductNamesOf(assetDetail.selectedCategory,
                                    assetDetail.selectedEquipmentType), {}}

====
